---- MODULE Spec2Model ----
(***************************************************************************)
(* The compile pipeline and three-tier bytecode lookup of jaclang:         *)
(* JacCompiler.get_bytecode / parse_str / compile / run_schedule           *)
(* (jac/jaclang/pycore/compiler.py), the JacProgram container              *)
(* (jac/jaclang/pycore/program.py) and the recursive-descent parser        *)
(* front end JacRDParser (jac/jaclang/compiler/rd_parser/__init__.py).     *)
(*                                                                         *)
(* One JacProgram and one on-disk bytecode cache are modelled.  Every      *)
(* handler is one action; the events it performs, in order, are kept in    *)
(* last.trace so that ordering properties of a single call can be stated.  *)
(***************************************************************************)
EXTENDS Integers, Sequences, FiniteSets, TLC

\* ------------------------------------------------------------------ bounds
Paths == {"a.jac"}
Contents == {"ok", "syntax_error", "parser_crash"}
MaxTime == 1
MaxDiags == 2

\* Room for every Module object that can be alive at once: one per hub
\* entry, the one the caller holds, and the one being built.
MaxMods == Cardinality(Paths) + 2

\* ------------------------------------------------------------------ values
\* gen.py_bytecode: the artifact, identified by what it was compiled from
\* (path, version of the source text) and by the code-generation schedule.
NoCode == [path |-> "", ver |-> -1, minimal |-> FALSE]

\* uni.Module, the fields the pipeline reads and writes.
NoMod ==
  [path |-> "", ver |-> -1, stub |-> FALSE, has_syntax_errors |-> FALSE,
   es_ast |-> FALSE, py_bytecode |-> NoCode]

\* An entry of the on-disk store: (bytecode bytes, recorded source mtime).
NoEntry == [code |-> NoCode, mtime |-> -1]

CancelTokens == {"None", "set"}

\* The compile-options a call is made with (defaults of compile()).
DefaultArgs ==
  [no_cgen |-> FALSE, type_check |-> FALSE, symtab_ir_only |-> FALSE,
   minimal |-> FALSE, cancel_token |-> "None", sched |-> "", clear_hub |-> FALSE]

CompileArgs ==
  {[DefaultArgs EXCEPT !.no_cgen = ng, !.type_check = tc, !.symtab_ir_only = so,
                       !.minimal = mi, !.cancel_token = ct] :
     ng \in BOOLEAN, tc \in BOOLEAN, so \in BOOLEAN, mi \in BOOLEAN,
     ct \in CancelTokens}

VARIABLES
  src,          \* the file system: path -> [mtime, content]
  mods,         \* the live uni.Module objects of the program, by object id
  hub,          \* target_program.mod.hub: path -> object id, 0 when absent
  main_stub,    \* target_program.mod.main.stub_only
  errors_had,   \* target_program.errors_had
  disk,         \* the on-disk store: <<path, minimal>> -> entry
  held,         \* the Module the caller got from its last compile(), 0 if none
  obtained,     \* per path: was bytecode obtained from get_bytecode, and was
                \* the source touched since ("no", "yes", "touched")
  last,         \* the last call: operation, arguments, events, result
  lexer,        \* a BootstrapLexer: source, position, tokens, mode state
  parser,       \* a BootstrapParser: tokens, position, statements, outcome
  rd,           \* a JacRDParser.transform call: core outcome, module, errors
  seed,         \* a seed-compiled module and the objects it has constructed
  symtab,       \* a bootstrap symbol table: scopes, symbols, impl records
  layers,       \* one glob statement compiled by the seed and the pipeline
  coerce,       \* a module going through JacRDParser context coercion
  estree,       \* a parse_ts_file call: external parser outcome, result
  given         \* a compile call given use_str: files, text parsed, reads

\* The variables of the program and its cache.
progvars == <<src, mods, hub, main_stub, errors_had, disk, held, obtained, last>>

\* The components exercised on their own.
unitvars == <<lexer, parser, rd, seed, symtab, layers, coerce, estree, given>>

vars == <<src, mods, hub, main_stub, errors_had, disk, held, obtained, last,
          lexer, parser, rd, seed, symtab, layers, coerce, estree, given>>

\* ------------------------------------------------------------------ schedules
get_symtab_ir_sched == <<"SymTabBuildPass", "DeclImplMatchPass">>

get_ir_gen_sched ==
  <<"SymTabBuildPass", "DeclImplMatchPass", "SemanticAnalysisPass",
    "SemDefMatchPass", "CFGBuildPass">>

get_type_check_sched == <<"TypeCheckPass">>

get_py_code_gen ==
  <<"EsastGenPass", "PyastGenPass", "PyJacAstLinkPass", "PyBytecodeGenPass">>

get_minimal_ir_gen_sched ==
  <<"SymTabBuildPass", "DeclImplMatchPass", "SemanticAnalysisPass">>

get_minimal_py_code_gen == <<"PyastGenPass", "PyBytecodeGenPass">>

SchedNames ==
  {"symtab_ir", "ir_gen", "type_check", "py_code_gen", "minimal_ir_gen",
   "minimal_py_code_gen"}

SchedOf(name) ==
  CASE name = "symtab_ir" -> get_symtab_ir_sched
    [] name = "ir_gen" -> get_ir_gen_sched
    [] name = "type_check" -> get_type_check_sched
    [] name = "py_code_gen" -> get_py_code_gen
    [] name = "minimal_ir_gen" -> get_minimal_ir_gen_sched
    [] name = "minimal_py_code_gen" -> get_minimal_py_code_gen
    [] OTHER -> <<>>

CodegenPasses ==
  {"EsastGenPass", "PyastGenPass", "PyJacAstLinkPass", "PyBytecodeGenPass"}

\* ------------------------------------------------------------------ events
\* One event of a call: what ran, and the has_syntax_errors flag of the
\* module being compiled right after it.
Ev(name, m) == [ev |-> name, flag |-> m.has_syntax_errors]

EvNames(t) == [i \in 1..Len(t) |-> t[i].ev]

HasEv(t, name) == \E i \in 1..Len(t) : t[i].ev = name

CountEv(t, name) == Cardinality({i \in 1..Len(t) : t[i].ev = name})

\* Index of the first event called name, 0 when there is none.
FirstEv(t, name) ==
  IF HasEv(t, name)
  THEN CHOOSE i \in 1..Len(t) :
         t[i].ev = name /\ \A j \in 1..(i - 1) : t[j].ev # name
  ELSE 0

AllPassNames ==
  {"SymTabBuildPass", "DeclImplMatchPass", "SemanticAnalysisPass",
   "SemDefMatchPass", "CFGBuildPass", "TypeCheckPass"} \cup CodegenPasses

RECURSIVE SelectEv(_, _)
SelectEv(t, names) ==
  IF t = <<>> THEN <<>>
  ELSE IF Head(t).ev \in names
       THEN <<Head(t).ev>> \o SelectEv(Tail(t), names)
       ELSE SelectEv(Tail(t), names)

\* The scheduled passes a call ran, in the order it ran them.
PassesRun(t) == SelectEv(t, AllPassNames)

\* ------------------------------------------------------------------ passes
\* A pass invoked by the scheduler on the module of context c.  A pass that
\* sees its cancellation handle set records a Cancelled diagnostic and
\* returns; code generation skips a module marked has_syntax_errors; no
\* pass clears the mark.
ApplyPass(name, c, cancelled) ==
  IF cancelled
  THEN [c EXCEPT !.errs = Append(@, "Cancelled"),
                 !.trace = Append(@, Ev(name, c.mod))]
  ELSE LET m2 ==
             IF name = "EsastGenPass" /\ ~c.mod.has_syntax_errors
             THEN [c.mod EXCEPT !.es_ast = TRUE]
             ELSE IF name = "PyBytecodeGenPass" /\ ~c.mod.has_syntax_errors
             THEN [c.mod EXCEPT !.py_bytecode =
                     [path |-> c.mod.path, ver |-> c.mod.ver,
                      minimal |-> ~c.mod.es_ast]]
             ELSE c.mod
       IN [c EXCEPT !.mod = m2, !.trace = Append(@, Ev(name, m2))]

\* Mutant: the loop breaks once a diagnostic has been recorded.
RECURSIVE run_schedule_stops_on_error(_, _, _)
run_schedule_stops_on_error(c, passes, cancel_token) ==
  IF passes = <<>> \/ c.errs # <<>> THEN c
  ELSE run_schedule_stops_on_error(
         ApplyPass(Head(passes), c, cancel_token = "set"),
         Tail(passes), cancel_token)

\* Mutant: the scheduler starts every schedule with the mark cleared.
RECURSIVE run_schedule_all(_, _, _)
run_schedule_all(c, passes, cancel_token) ==
  IF passes = <<>> THEN c
  ELSE run_schedule_all(ApplyPass(Head(passes), c, cancel_token = "set"),
                        Tail(passes), cancel_token)

run_schedule_resets_flag(c, passes, cancel_token) ==
  run_schedule_all([c EXCEPT !.mod.has_syntax_errors = FALSE], passes,
                   cancel_token)

\* JacCompiler.run_schedule: for current_pass in passes: current_pass(...)
RECURSIVE run_schedule(_, _, _)
run_schedule(c, passes, cancel_token) ==
  IF passes = <<>> THEN c
  ELSE run_schedule(ApplyPass(Head(passes), c, cancel_token = "set"),
                    Tail(passes), cancel_token)

\* ------------------------------------------------------------------ parser
\* JacRDParser.transform on the text of path p: a clean parse, a parse that
\* recorded errors (the module is marked), or a failure of the parser core
\* (a stub module, marked, with one logged error).
JacRDParser_transform(p, text) ==
  LET base == [NoMod EXCEPT !.path = p, !.ver = text.mtime]
  IN CASE text.content = "ok" -> [mod |-> base, errors |-> <<>>]
       [] text.content = "syntax_error" ->
            [mod |-> [base EXCEPT !.has_syntax_errors = TRUE],
             errors |-> <<"SyntaxError">>]
       [] OTHER ->
            [mod |-> [base EXCEPT !.stub = TRUE, !.has_syntax_errors = TRUE],
             errors |-> <<"InternalError">>]

\* A new Module object: an id no live object has.
FreeId(ms) == CHOOSE i \in 1..MaxMods : ms[i] = NoMod /\ \A j \in 1..(i - 1) : ms[j] # NoMod

\* Mutant: the early return on had_error is missing.
parse_str_registers_failed(c, p, text, cancel_token) ==
  LET r == JacRDParser_transform(p, text)
      c1 == [c EXCEPT !.mod = r.mod, !.id = FreeId(c.mods),
                      !.errs = c.errs \o r.errors,
                      !.trace = Append(c.trace, Ev("JacParser", r.mod))]
  IN [c1 EXCEPT
        !.hub = [(IF c.main_stub THEN [q \in Paths |-> 0] ELSE c.hub)
                   EXCEPT ![p] = c1.id],
        !.main_stub = FALSE,
        !.trace = c1.trace \o <<Ev("hub_write", r.mod),
                                Ev("JacAnnexPass", r.mod)>>]

\* JacCompiler.parse_str, the branch for Jac sources.  The cancellation
\* token is not handed to the parser.  A module whose parse recorded errors
\* is returned without being registered.
parse_str(c, p, text, cancel_token) ==
  LET r == JacRDParser_transform(p, text)
      had_error == Len(r.errors) > 0
      c1 == [c EXCEPT !.mod = r.mod, !.id = FreeId(c.mods),
                      !.errs = c.errs \o r.errors,
                      !.trace = Append(c.trace, Ev("JacParser", r.mod))]
  IN IF had_error THEN c1
     ELSE [c1 EXCEPT
             !.hub = [(IF c.main_stub THEN [q \in Paths |-> 0] ELSE c.hub)
                        EXCEPT ![p] = c1.id],
             !.main_stub = FALSE,
             !.trace = c1.trace \o <<Ev("hub_write", r.mod),
                                     Ev("JacAnnexPass", r.mod)>>]

\* The IR schedule compile() picks from its options.
IrSched(o) ==
  IF o.symtab_ir_only THEN get_symtab_ir_sched
  ELSE IF o.minimal THEN get_minimal_ir_gen_sched
  ELSE get_ir_gen_sched

\* Mutant: code generation is decided by no_cgen alone.
ShouldCodegen_ignores_errors(m, o) == ~o.no_cgen

\* compile(): "If the module has syntax errors, we skip code generation."
ShouldCodegen(m, o) == (~m.has_syntax_errors) /\ (~o.no_cgen)

\* JacCompiler.compile: read the file, parse, run the IR schedule, the
\* type-check schedule, the code-generation schedule; the module object is
\* stored once the call is over.
compile(c, p, o) ==
  LET c0 == [c EXCEPT !.trace = Append(@, Ev("read_file", NoMod))]
      c1 == parse_str(c0, p, c.src[p], o.cancel_token)
      c2 == run_schedule(c1, IrSched(o), o.cancel_token)
      c3 == IF o.type_check /\ ~o.minimal
            THEN run_schedule(c2, get_type_check_sched, o.cancel_token)
            ELSE c2
      c4 == IF ShouldCodegen(c3.mod, o)
            THEN run_schedule(c3,
                              IF o.minimal THEN get_minimal_py_code_gen
                              ELSE get_py_code_gen,
                              o.cancel_token)
            ELSE c3
  IN [c4 EXCEPT !.mods[c4.id] = c4.mod]

\* ------------------------------------------------------------------ cache
\* CacheKey.for_source(path, minimal)
CacheKey_for_source(p, minimal) == <<p, minimal>>

\* BytecodeCache.get: a hit needs an entry whose recorded mtime is not
\* older than the source.
BytecodeCache_get(d, key, files) ==
  IF d[key] # NoEntry /\ d[key].mtime >= files[key[1]].mtime
  THEN d[key].code
  ELSE NoCode

\* BytecodeCache.put: store the bytes with the source's current mtime.
BytecodeCache_put(d, key, code, files) ==
  [d EXCEPT ![key] = [code |-> code, mtime |-> files[key[1]].mtime]]

\* ------------------------------------------------------------------ get_bytecode
\* Tier 1 test: full_target in hub and hub[full_target].gen.py_bytecode
Tier1Hit(c, p) == c.hub[p] # 0 /\ c.mods[c.hub[p]].py_bytecode # NoCode

\* Mutant: the key leaves the minimal option out.
Tier2Key_without_options(p, minimal) == CacheKey_for_source(p, FALSE)

\* Tier 2 key: cache_key = CacheKey.for_source(full_target, minimal)
Tier2Key(p, minimal) == CacheKey_for_source(p, minimal)

\* Mutant: the compiled bytecode is returned but never stored.
Tier3Put_dropped(d, key, code, files) == d

\* Tier 3 store: self._bytecode_cache.put(cache_key, result.gen.py_bytecode)
Tier3Put(d, key, code, files) == BytecodeCache_put(d, key, code, files)

\* Mutant: the result of the compile is stored without being tested.
Tier3_stores_untested(c, p, minimal) ==
  LET r == compile(c, p, [DefaultArgs EXCEPT !.minimal = minimal])
  IN [r EXCEPT !.disk = Tier3Put(r.disk, Tier2Key(p, minimal),
                                  r.mod.py_bytecode, r.src),
               !.trace = Append(@, Ev("cache_put", r.mod)),
               !.result = r.mod.py_bytecode]

\* Tier 3: compile, and cache the bytecode when there is some.
Tier3(c, p, minimal) ==
  LET r == compile(c, p, [DefaultArgs EXCEPT !.minimal = minimal])
  IN IF r.mod.py_bytecode # NoCode
     THEN [r EXCEPT !.disk = Tier3Put(r.disk, Tier2Key(p, minimal),
                                     r.mod.py_bytecode, r.src),
                    !.trace = Append(@, Ev("cache_put", r.mod)),
                    !.result = r.mod.py_bytecode]
     ELSE [r EXCEPT !.result = NoCode]

\* Mutant: whatever the store answers is returned, a miss included.
Tier2_without_none_check(c, p, minimal) ==
  [c EXCEPT !.trace = Append(@, Ev("cache_get", NoMod)),
            !.result = BytecodeCache_get(c.disk, Tier2Key(p, minimal), c.src)]

\* Tier 2 and on: the on-disk store, then compilation.
Tier2(c, p, minimal) ==
  LET c1 == [c EXCEPT !.trace = Append(@, Ev("cache_get", NoMod))]
      cached_code == BytecodeCache_get(c.disk, Tier2Key(p, minimal), c.src)
  IN IF cached_code # NoCode
     THEN [c1 EXCEPT !.result = cached_code]
     ELSE Tier3(c1, p, minimal)

\* Mutant: the on-disk store is asked before the module table.
get_bytecode_disk_first(c, p, minimal) ==
  LET c1 == [c EXCEPT !.trace = Append(@, Ev("cache_get", NoMod))]
      cached_code == BytecodeCache_get(c.disk, Tier2Key(p, minimal), c.src)
      c2 == [c1 EXCEPT !.trace = Append(@, Ev("hub_lookup", NoMod))]
  IN IF cached_code # NoCode THEN [c1 EXCEPT !.result = cached_code]
     ELSE IF Tier1Hit(c, p)
     THEN [c2 EXCEPT !.result = c.mods[c.hub[p]].py_bytecode]
     ELSE Tier3(c2, p, minimal)

\* Mutant: both lookups are made and their answers ignored.
get_bytecode_uncached(c, p, minimal) ==
  Tier3([c EXCEPT !.trace = @ \o <<Ev("hub_lookup", NoMod),
                                   Ev("cache_get", NoMod)>>],
        p, minimal)

\* JacCompiler.get_bytecode (JacProgram.get_bytecode is the same text).
get_bytecode(c, p, minimal) ==
  LET c1 == [c EXCEPT !.trace = Append(@, Ev("hub_lookup", NoMod))]
  IN IF Tier1Hit(c, p)
     THEN [c1 EXCEPT !.result = c.mods[c.hub[p]].py_bytecode]
     ELSE Tier2(c1, p, minimal)

\* ------------------------------------------------------------------ actions
\* The state a handler starts from.
Ctx ==
  [src |-> src, mods |-> mods, hub |-> hub, main_stub |-> main_stub,
   errs |-> errors_had, disk |-> disk,
   mod |-> NoMod, id |-> 0, trace |-> <<>>, result |-> NoCode]

\* Module objects nothing refers to any more are gone.
Live(ms, h, keep) ==
  [i \in 1..MaxMods |->
     IF i = keep \/ (\E q \in Paths : h[q] = i) THEN ms[i] ELSE NoMod]

Suffix(s, n) == SubSeq(s, n + 1, Len(s))

\* The record of a call.  note says how a get_bytecode call follows the calls
\* before it: "again" right after a get_bytecode of the same path and option
\* that compiled and returned bytecode, "touched" when the source was
\* touched since bytecode for the path was last obtained.
Call(op, p, args, c, note) ==
  [op |-> op, path |-> p, args |-> args, trace |-> c.trace,
   diags |-> Suffix(c.errs, Len(errors_had)), result |-> c.result,
   mod |-> c.id, note |-> note]

\* No lexer has been constructed.
NoLexer ==
  [source |-> <<>>, pos |-> 0, tokens |-> <<>>, mode_stack |-> <<"normal">>,
   fstring_brace_depth |-> 0, fstring_brace_depth_stack |-> <<>>,
   fstring_raw_stack |-> <<>>, status |-> "none", entered |-> <<>>, iterations |-> 0]

\* No parser, transform, seed module or symbol table has been constructed.
NoParser == [tokens |-> <<"EOF">>, pos |-> 1, body |-> 0, status |-> "none",
             error |-> 0]

NoRD == [status |-> "none", core |-> "none", module |-> "none",
         has_syntax_errors |-> FALSE, errors_had |-> 0]

NoSeed == [status |-> "none"]

NoSymtab == [status |-> "none"]

NoLayers == [status |-> "none"]

NoCoerce == [status |-> "none"]

NoEstree == [status |-> "none"]

NoGiven == [status |-> "none"]

InitCall ==
  [op |-> "init", path |-> "", args |-> DefaultArgs, trace |-> <<>>,
   diags |-> <<>>, result |-> NoCode, mod |-> 0, note |-> ""]

Init ==
  /\ src \in [Paths -> [mtime : {0}, content : Contents]]
  /\ mods = [i \in 1..MaxMods |-> NoMod]
  /\ hub = [p \in Paths |-> 0]
  /\ main_stub = TRUE
  /\ errors_had = <<>>
  /\ disk = [k \in Paths \X BOOLEAN |-> NoEntry]
  /\ held = 0
  /\ obtained = [p \in Paths |-> "no"]
  /\ last = InitCall
  /\ lexer = NoLexer
  /\ parser = NoParser
  /\ rd = NoRD
  /\ seed = NoSeed
  /\ symtab = NoSymtab
  /\ layers = NoLayers
  /\ coerce = NoCoerce
  /\ estree = NoEstree
  /\ given = NoGiven

Commit(c, keep) ==
  /\ mods' = Live(c.mods, c.hub, keep)
  /\ hub' = c.hub
  /\ main_stub' = c.main_stub
  /\ errors_had' = c.errs
  /\ disk' = c.disk
  /\ held' = keep
  /\ UNCHANGED unitvars

\* A call may start while the program's diagnostic list is below the bound.
CanCall == Len(errors_had) < MaxDiags

\* program.get_bytecode(p, minimal)
GetBytecode(p, minimal) ==
  /\ CanCall
  /\ LET c == get_bytecode(Ctx, p, minimal)
         again == /\ last.op = "get_bytecode"
                  /\ last.path = p
                  /\ last.args.minimal = minimal
                  /\ HasEv(last.trace, "JacParser")
                  /\ last.result # NoCode
     IN /\ Commit(c, held)
        /\ last' = Call("get_bytecode", p,
                        [DefaultArgs EXCEPT !.minimal = minimal], c,
                        IF again THEN "again"
                        ELSE IF obtained[p] = "touched" THEN "touched"
                        ELSE "")
        /\ obtained' = IF c.result # NoCode
                       THEN [obtained EXCEPT ![p] = "yes"]
                       ELSE obtained
  /\ UNCHANGED src

\* program.compile(p, no_cgen, type_check, symtab_ir_only, minimal, cancel_token)
Compile(p, o) ==
  /\ CanCall
  /\ LET c == compile(Ctx, p, o)
     IN /\ Commit(c, c.id)
        /\ last' = Call("compile", p, o, c, "")
  /\ UNCHANGED <<src, obtained>>

\* program.run_schedule(mod, passes, cancel_token) on the module the caller holds
RunSchedule(s, cancel_token) ==
  /\ held # 0
  /\ CanCall
  /\ LET c0 == [Ctx EXCEPT !.mod = mods[held], !.id = held]
         c1 == run_schedule(c0, SchedOf(s), cancel_token)
         c == [c1 EXCEPT !.mods[held] = c1.mod]
     IN /\ Commit(c, held)
        /\ last' = Call("run_schedule", mods[held].path,
                        [DefaultArgs EXCEPT !.sched = s,
                                            !.cancel_token = cancel_token],
                        c, "")
  /\ UNCHANGED <<src, obtained>>

\* program.clear_type_system(clear_hub)
ClearTypeSystem(clear_hub) ==
  /\ LET c == [Ctx EXCEPT !.hub = IF clear_hub THEN [q \in Paths |-> 0] ELSE @]
     IN /\ Commit(c, held)
        /\ last' = Call("clear_type_system", "",
                        [DefaultArgs EXCEPT !.clear_hub = clear_hub], c, "")
  /\ UNCHANGED <<src, obtained>>

\* JacProgram(): a new program in a new process; the on-disk store stays.
NewProgram ==
  /\ mods' = [i \in 1..MaxMods |-> NoMod]
  /\ hub' = [p \in Paths |-> 0]
  /\ main_stub' = TRUE
  /\ errors_had' = <<>>
  /\ held' = 0
  /\ obtained' = [p \in Paths |-> "no"]
  /\ last' = [InitCall EXCEPT !.op = "new_program"]
  /\ UNCHANGED <<src, disk, unitvars>>

\* The source file is written: its mtime advances, its text may change.
Touch(p, content) ==
  /\ src[p].mtime < MaxTime
  /\ src' = [src EXCEPT ![p] = [mtime |-> @.mtime + 1, content |-> content]]
  /\ obtained' = [obtained EXCEPT ![p] = IF @ = "no" THEN "no" ELSE "touched"]
  /\ last' = [InitCall EXCEPT !.op = "touch", !.path = p]
  /\ UNCHANGED <<mods, hub, main_stub, errors_had, disk, held, unitvars>>

\* The options the cache-facing callers pass to compile().
CacheCompileArgs ==
  {[DefaultArgs EXCEPT !.no_cgen = ng, !.minimal = mi] :
     ng \in BOOLEAN, mi \in BOOLEAN}

\* The three-tier lookup and everything that changes what it finds.
NextCache ==
  \/ \E p \in Paths, minimal \in BOOLEAN : GetBytecode(p, minimal)
  \/ \E p \in Paths, o \in CacheCompileArgs : Compile(p, o)
  \/ \E b \in BOOLEAN : ClearTypeSystem(b)
  \/ NewProgram
  \/ \E p \in Paths, k \in Contents : Touch(p, k)

SpecCache == Init /\ [][NextCache]_vars

\* The pass pipeline under every combination of the compile options.
NextPipeline ==
  \/ \E p \in Paths, o \in CompileArgs : Compile(p, o)
  \/ \E s \in SchedNames, ct \in CancelTokens : RunSchedule(s, ct)
  \/ NewProgram
  \/ \E p \in Paths, k \in Contents : Touch(p, k)

SpecPipeline == Init /\ [][NextPipeline]_vars

\* ------------------------------------------------------------------ bootstrap lexer
\* BootstrapLexer (jac/jaclang/compiler/bootstrap/bootstrap_parser.py) on
\* sources over the characters Chars.  Characters are one-character strings,
\* "" is what current() and peek() return past the end of the source.
Chars == {"f", "x", "\"", "{", "}", " ", "$"}

MaxLen == 4
MaxNest == 8

\* str.isalpha() / str.isalnum() on Chars.
IsAlpha(ch) == ch \in {"f", "x"}

\* Python's  ch in "..."  for a ch of length 0 or 1: the empty string is a
\* substring of every string.
StrIn(ch, chars) == ch = "" \/ ch \in chars

\* Python's  source[a:b]
Slice(s, a, b) == SubSeq(s, a + 1, IF b < Len(s) THEN b ELSE Len(s))

BootstrapToken(type, value, a, b) ==
  [type |-> type, value |-> value, pos_start |-> a, pos_end |-> b]

\* next_token returning None.
NoToken == BootstrapToken("None", <<>>, -1, -1)

\* _FSTRING_MODE_INFO: mode -> (close quote, is_triple, start, end, text)
FSTRING_MODE_INFO ==
  [m \in {"fstring_dq", "fstring_sq", "fstring_tdq", "fstring_tsq"} |->
     CASE m = "fstring_dq" ->
            [quote |-> "\"", triple |-> FALSE, start |-> "F_DQ_START",
             end |-> "F_DQ_END", text |-> "F_TEXT_DQ"]
       [] m = "fstring_sq" ->
            [quote |-> "'", triple |-> FALSE, start |-> "F_SQ_START",
             end |-> "F_SQ_END", text |-> "F_TEXT_SQ"]
       [] m = "fstring_tdq" ->
            [quote |-> "\"", triple |-> TRUE, start |-> "F_TDQ_START",
             end |-> "F_TDQ_END", text |-> "F_TEXT_TDQ"]
       [] OTHER ->
            [quote |-> "'", triple |-> TRUE, start |-> "F_TSQ_START",
             end |-> "F_TSQ_END", text |-> "F_TEXT_TSQ"]]

FStringModes == DOMAIN FSTRING_MODE_INFO

\* _FSTRING_QUOTE_TO_MODE
FSTRING_QUOTE_TO_MODE(quote_char, is_triple) ==
  IF quote_char = "\""
  THEN (IF is_triple THEN "fstring_tdq" ELSE "fstring_dq")
  ELSE (IF is_triple THEN "fstring_tsq" ELSE "fstring_sq")

\* BootstrapLexer.__init__ / the reset at the head of tokenize.
BootstrapLexer(source) ==
  [source |-> source, pos |-> 0, tokens |-> <<>>,
   mode_stack |-> <<"normal">>, fstring_brace_depth |-> 0,
   fstring_brace_depth_stack |-> <<>>, fstring_raw_stack |-> <<>>,
   status |-> "scanning", entered |-> <<>>, iterations |-> 0]

current(l) == IF l.pos < Len(l.source) THEN l.source[l.pos + 1] ELSE ""

peek(l, offset) ==
  LET idx == l.pos + offset
  IN IF 0 <= idx /\ idx < Len(l.source) THEN l.source[idx + 1] ELSE ""

advance(l) == IF l.pos >= Len(l.source) THEN l ELSE [l EXCEPT !.pos = @ + 1]

at_end(l) == l.pos >= Len(l.source)

RECURSIVE AdvanceN(_, _)
AdvanceN(l, n) == IF n = 0 THEN l ELSE AdvanceN(advance(l), n - 1)

\* while not at_end() and current() in chars: advance()
RECURSIVE AdvanceWhile(_, _)
AdvanceWhile(l, chars) ==
  IF ~at_end(l) /\ current(l) \in chars
  THEN AdvanceWhile(advance(l), chars)
  ELSE l

current_mode(l) ==
  IF l.mode_stack # <<>> THEN l.mode_stack[Len(l.mode_stack)] ELSE "normal"

Pop(s) == SubSeq(s, 1, Len(s) - 1)

\* A token whose value is the source between start_pos and the new pos.
SliceToken(type, l0, l1) ==
  BootstrapToken(type, Slice(l1.source, l0.pos, l1.pos), l0.pos, l1.pos)

\* skip_whitespace_and_comments; of the whitespace characters the sources
\* hold the space and the newline, and no character starts a comment.
skip_whitespace_and_comments(l) == AdvanceWhile(l, {" ", "\n"})

\* scan_identifier; no word over Chars is a keyword, "not" or "is".
scan_identifier(l) ==
  LET l1 == AdvanceWhile(l, {"f", "x"})
  IN [l |-> l1, tok |-> SliceToken("NAME", l, l1)]

\* scan_fstring_start: the prefix is consumed, pos is at the opening quote;
\* the mode lookup raises KeyError when current() is not a quote.
scan_fstring_start(l, is_raw) ==
  LET quote_char == current(l)
      is_triple == peek(l, 1) = quote_char /\ peek(l, 2) = quote_char
      l1 == IF is_triple THEN AdvanceN(l, 3) ELSE advance(l)
      mode == FSTRING_QUOTE_TO_MODE(quote_char, is_triple)
      start_tok == IF is_raw
                   THEN "R" \o FSTRING_MODE_INFO[mode].start
                   ELSE FSTRING_MODE_INFO[mode].start
      l2 == [l1 EXCEPT !.mode_stack = Append(@, mode),
                       !.fstring_raw_stack = Append(@, is_raw)]
  IN IF quote_char \notin {"\"", "'"}
     THEN [l |-> [l1 EXCEPT !.status = "raised"], tok |-> NoToken]
     ELSE [l |-> l2, tok |-> SliceToken(start_tok, l, l2)]

\* The loop of _scan_fstring_text.
RECURSIVE FStringTextEnd(_, _, _, _)
FStringTextEnd(l, quote_char, is_triple, is_raw) ==
  LET ch == current(l)
  IN IF at_end(l) THEN l
     ELSE IF ch = quote_char
     THEN (IF is_triple /\ ~(peek(l, 1) = quote_char /\ peek(l, 2) = quote_char)
           THEN FStringTextEnd(advance(l), quote_char, is_triple, is_raw)
           ELSE l)
     ELSE IF ch \in {"{", "}"} THEN l
     ELSE IF ch = "\\" /\ ~is_raw
     THEN FStringTextEnd(advance(advance(l)), quote_char, is_triple, is_raw)
     ELSE IF ch = "\n" /\ ~is_triple THEN l
     ELSE FStringTextEnd(advance(l), quote_char, is_triple, is_raw)

scan_fstring_text(l) ==
  LET info == FSTRING_MODE_INFO[current_mode(l)]
      is_raw == IF l.fstring_raw_stack # <<>>
                THEN l.fstring_raw_stack[Len(l.fstring_raw_stack)]
                ELSE FALSE
      text_tok == IF is_raw THEN "R" \o info.text ELSE info.text
      l1 == FStringTextEnd(l, info.quote, info.triple, is_raw)
  IN IF l1.pos = l.pos THEN [l |-> l1, tok |-> NoToken]
     ELSE [l |-> l1, tok |-> SliceToken(text_tok, l, l1)]

\* Mutant: the closing quote pops the text mode and keeps its raw mark.
FStringEnd_keeps_raw(l, n, end_tok) ==
  LET l1 == AdvanceN(l, n)
      l2 == [l1 EXCEPT !.mode_stack = Pop(@)]
  IN [l |-> l2, tok |-> SliceToken(end_tok, l, l2)]

\* Closing the literal: pop the text mode and its raw mark.
FStringEnd(l, n, end_tok) ==
  LET l1 == AdvanceN(l, n)
      l2 == [l1 EXCEPT !.mode_stack = Pop(@),
                       !.fstring_raw_stack =
                         IF @ # <<>> THEN Pop(@) ELSE @]
  IN [l |-> l2, tok |-> SliceToken(end_tok, l, l2)]

\* Mutant: _scan_fstring_token without the fallback that consumes one
\* character when no text could be scanned.
scan_fstring_token_without_fallback(l) ==
  LET info == FSTRING_MODE_INFO[current_mode(l)]
      ch == current(l)
      closes == ch = info.quote /\
                (info.triple =>
                   (peek(l, 1) = info.quote /\ peek(l, 2) = info.quote))
      text == scan_fstring_text(l)
      l_open == [advance(l) EXCEPT
                   !.fstring_brace_depth_stack =
                     Append(@, l.fstring_brace_depth),
                   !.fstring_brace_depth = 1,
                   !.mode_stack = Append(@, "fstring_expr")]
  IN IF at_end(l) THEN [l |-> l, tok |-> NoToken]
     ELSE IF closes
     THEN FStringEnd(l, IF info.triple THEN 3 ELSE 1, info.end)
     ELSE IF ch = "{" /\ peek(l, 1) = "{"
     THEN [l |-> AdvanceN(l, 2),
           tok |-> BootstrapToken("D_LBRACE", <<"{", "{">>, l.pos, l.pos + 2)]
     ELSE IF ch = "}" /\ peek(l, 1) = "}"
     THEN [l |-> AdvanceN(l, 2),
           tok |-> BootstrapToken("D_RBRACE", <<"}", "}">>, l.pos, l.pos + 2)]
     ELSE IF ch = "{"
     THEN [l |-> l_open,
           tok |-> BootstrapToken("LBRACE", <<"{">>, l.pos, l_open.pos)]
     ELSE IF text.tok # NoToken THEN text
     ELSE [l |-> l, tok |-> NoToken]

\* _scan_fstring_token: one token in f-string text mode.
scan_fstring_token(l) ==
  LET info == FSTRING_MODE_INFO[current_mode(l)]
      ch == current(l)
      closes == ch = info.quote /\
                (info.triple =>
                   (peek(l, 1) = info.quote /\ peek(l, 2) = info.quote))
      text == scan_fstring_text(l)
      l_open == [advance(l) EXCEPT
                   !.fstring_brace_depth_stack =
                     Append(@, l.fstring_brace_depth),
                   !.fstring_brace_depth = 1,
                   !.mode_stack = Append(@, "fstring_expr")]
  IN IF at_end(l) THEN [l |-> l, tok |-> NoToken]
     ELSE IF closes
     THEN FStringEnd(l, IF info.triple THEN 3 ELSE 1, info.end)
     ELSE IF ch = "{" /\ peek(l, 1) = "{"
     THEN [l |-> AdvanceN(l, 2),
           tok |-> BootstrapToken("D_LBRACE", <<"{", "{">>, l.pos, l.pos + 2)]
     ELSE IF ch = "}" /\ peek(l, 1) = "}"
     THEN [l |-> AdvanceN(l, 2),
           tok |-> BootstrapToken("D_RBRACE", <<"}", "}">>, l.pos, l.pos + 2)]
     ELSE IF ch = "{"
     THEN [l |-> l_open,
           tok |-> BootstrapToken("LBRACE", <<"{">>, l.pos, l_open.pos)]
     ELSE IF text.tok # NoToken THEN text
     ELSE [l |-> advance(l),
           tok |-> BootstrapToken("STRING", <<ch>>, l.pos, l.pos + 1)]

\* The body loop of scan_string for a single-quoted literal.
RECURSIVE StringEnd(_, _)
StringEnd(l, quote) ==
  LET ch == current(l)
  IN IF at_end(l) THEN l
     ELSE IF ch = "\\" THEN StringEnd(advance(advance(l)), quote)
     ELSE IF ch = quote THEN advance(l)
     ELSE IF ch = "\n" THEN l
     ELSE StringEnd(advance(l), quote)

\* The body loop of scan_string for a triple-quoted literal.
RECURSIVE TripleStringEnd(_, _)
TripleStringEnd(l, quote) ==
  LET ch == current(l)
  IN IF at_end(l) THEN l
     ELSE IF ch = "\\" THEN TripleStringEnd(advance(advance(l)), quote)
     ELSE IF ch = quote /\ peek(l, 1) = quote /\ peek(l, 2) = quote
     THEN AdvanceN(l, 3)
     ELSE TripleStringEnd(advance(l), quote)

\* scan_string: pos is at the opening quote.
scan_string(l, quote) ==
  LET is_triple == Slice(l.source, l.pos, l.pos + 3) = <<quote, quote, quote>>
      l1 == IF is_triple
            THEN TripleStringEnd(AdvanceN(l, 3), quote)
            ELSE StringEnd(advance(l), quote)
  IN [l |-> l1, tok |-> SliceToken("STRING", l, l1)]

\* scan_operator: no operator of two or more characters can be spelled with
\* Chars; a character that is no operator gives one ERROR token.
scan_operator(l) ==
  LET ch == current(l)
      l1 == advance(l)
  IN IF ch = "{" THEN [l |-> l1, tok |-> SliceToken("LBRACE", l, l1)]
     ELSE IF ch = "}" THEN [l |-> l1, tok |-> SliceToken("RBRACE", l, l1)]
     ELSE [l |-> l1, tok |-> BootstrapToken("ERROR", <<ch>>, l.pos, l1.pos)]

\* _scan_identifier_or_string_prefix: of the prefix letters only f is in
\* Chars, so the two-letter prefixes (rf, fr, rb, br) never match.
scan_identifier_or_string_prefix(l) ==
  IF current(l) = "f" /\ StrIn(peek(l, 1), {"\"", "'"})
  THEN scan_fstring_start(advance(l), FALSE)
  ELSE scan_identifier(l)

\* _scan_normal_token, the branches a character of Chars can take.
scan_normal_token(l) ==
  LET ch == current(l)
  IN IF at_end(l) THEN [l |-> l, tok |-> NoToken]
     ELSE IF IsAlpha(ch) THEN scan_identifier_or_string_prefix(l)
     ELSE IF ch \in {"\"", "'"} THEN scan_string(l, ch)
     ELSE scan_operator(l)

\* Mutant: the closing brace of an expression pops the mode but leaves the
\* nesting counter and the auxiliary stack as they are.
ExprModeToken_without_restore(l) ==
  LET ch == current(l)
      l1 == advance([l EXCEPT !.fstring_brace_depth = @ - 1])
  IN IF ch = "}"
     THEN (IF l.fstring_brace_depth - 1 = 0
           THEN [l |-> [l1 EXCEPT !.mode_stack = Pop(@)],
                 tok |-> BootstrapToken("RBRACE", <<"}">>, l.pos, l1.pos)]
           ELSE scan_normal_token([l EXCEPT !.fstring_brace_depth = @ - 1]))
     ELSE IF ch = "{"
     THEN scan_normal_token([l EXCEPT !.fstring_brace_depth = @ + 1])
     ELSE scan_normal_token(l)

\* next_token in f-string expression mode, after whitespace was skipped.
ExprModeToken(l) ==
  LET ch == current(l)
      l1 == advance([l EXCEPT !.fstring_brace_depth = @ - 1])
      l2 == [l1 EXCEPT
               !.mode_stack = Pop(@),
               !.fstring_brace_depth =
                 IF l.fstring_brace_depth_stack # <<>>
                 THEN l.fstring_brace_depth_stack[
                        Len(l.fstring_brace_depth_stack)]
                 ELSE @,
               !.fstring_brace_depth_stack = IF @ # <<>> THEN Pop(@) ELSE @]
  IN IF ch = "}"
     THEN (IF l.fstring_brace_depth - 1 = 0
           THEN [l |-> l2, tok |-> BootstrapToken("RBRACE", <<"}">>, l.pos, l2.pos)]
           ELSE scan_normal_token([l EXCEPT !.fstring_brace_depth = @ - 1]))
     ELSE IF ch = "{"
     THEN scan_normal_token([l EXCEPT !.fstring_brace_depth = @ + 1])
     ELSE scan_normal_token(l)

\* BootstrapLexer.next_token
next_token(l) ==
  IF at_end(l) THEN [l |-> l, tok |-> NoToken]
  ELSE IF current_mode(l) \in FStringModes THEN scan_fstring_token(l)
  ELSE LET l1 == skip_whitespace_and_comments(l)
       IN IF at_end(l1) THEN [l |-> l1, tok |-> NoToken]
          ELSE IF current_mode(l) = "fstring_expr" THEN ExprModeToken(l1)
          ELSE scan_normal_token(l1)

StartTokens == {FSTRING_MODE_INFO[m].start : m \in FStringModes}
EndTokens == {FSTRING_MODE_INFO[m].end : m \in FStringModes}

\* What C16 compares: mode stack, nesting counter, auxiliary counter stack.
ModeState(l) ==
  [mode_stack |-> l.mode_stack,
   fstring_brace_depth |-> l.fstring_brace_depth,
   fstring_brace_depth_stack |-> l.fstring_brace_depth_stack]

\* One iteration of the loop of tokenize on lexer l.
TokenizeStep(l) ==
  LET r == next_token([l EXCEPT !.iterations = @ + 1])
      l1 == r.l
  IN IF l1.status = "raised" THEN l1
     ELSE IF r.tok = NoToken THEN l1
     ELSE [l1 EXCEPT
             !.tokens = Append(@, r.tok),
             !.entered =
               IF r.tok.type \in StartTokens THEN Append(@, ModeState(l))
               ELSE IF r.tok.type \in EndTokens THEN Pop(@)
               ELSE @]

\* Mutant: tokenize returns without appending the sentinel.
TokenizeEnd_without_eof(l) == [l EXCEPT !.status = "done"]

\* The EOF sentinel tokenize appends after its loop.
TokenizeEnd(l) ==
  [l EXCEPT !.tokens = Append(@, BootstrapToken("EOF", <<>>, l.pos, l.pos)),
            !.status = "done"]

\* ------------------------------------------------------------------ lexer inputs
\* Every source of at most MaxLen characters.
ShortSources == UNION {[1..n -> Chars] : n \in 0..MaxLen}

\* Sources of several lines: both quote characters and the newline.
LineChars == {"f", "x", "\"", "'", "{", "}", "\n"}

MaxLineLen == 5

LineSources == UNION {[1..n -> LineChars] : n \in 0..MaxLineLen}

\* The expressions of brace-nesting depth d: a name, a braced expression, or
\* an interpolated literal holding one (a space keeps its brace from reading
\* as the escape {{).
RECURSIVE FExprs(_)
FExprs(d) ==
  IF d = 0 THEN {<<"x">>}
  ELSE {<<"{">> \o e \o <<"}">> : e \in FExprs(d - 1)}
       \cup {<<"f", "\"", "{", " ">> \o e \o <<" ", "}", "\"">> :
               e \in FExprs(d - 1)}

\* Interpolated literals whose quotes and braces balance: text around one
\* expression of nesting depth at most MaxNest, in single or triple quotes.
BalancedLiterals ==
  UNION {{<<"f", "\"", "x", "{", " ">> \o e \o <<" ", "}", "x", "\"">> :
            e \in FExprs(d)}
         \cup {<<"f", "\"", "\"", "\"", "x", "{", " ">> \o e
                 \o <<" ", "}", "x", "\"", "\"", "\"">> : e \in FExprs(d)} :
           d \in 0..MaxNest}

\* The number of braces open at the end of source s, counting every brace.
RECURSIVE BraceNesting(_)
BraceNesting(s) ==
  IF s = <<>> THEN 0
  ELSE BraceNesting(SubSeq(s, 1, Len(s) - 1))
       + (IF s[Len(s)] = "{" THEN 1 ELSE IF s[Len(s)] = "}" THEN -1 ELSE 0)

RECURSIVE MaxBraceNesting(_)
MaxBraceNesting(s) ==
  IF s = <<>> THEN 0
  ELSE LET m == MaxBraceNesting(SubSeq(s, 1, Len(s) - 1))
           n == BraceNesting(s)
       IN IF n > m THEN n ELSE m

\* BootstrapLexer(source).tokenize(), one loop iteration per step.
TokenizeNext ==
  /\ lexer.status = "scanning"
  /\ ~at_end(lexer)
  /\ lexer' = TokenizeStep(lexer)
  /\ UNCHANGED <<progvars, parser, rd, seed, symtab, layers, coerce, estree, given>>

TokenizeReturn ==
  /\ lexer.status = "scanning"
  /\ at_end(lexer)
  /\ lexer' = TokenizeEnd(lexer)
  /\ UNCHANGED <<progvars, parser, rd, seed, symtab, layers, coerce, estree, given>>

\* A freshly constructed program that no call has touched.
FreshProgram ==
  /\ src = [p \in Paths |-> [mtime |-> 0, content |-> "ok"]]
  /\ mods = [i \in 1..MaxMods |-> NoMod]
  /\ hub = [p \in Paths |-> 0]
  /\ main_stub = TRUE
  /\ errors_had = <<>>
  /\ disk = [k \in Paths \X BOOLEAN |-> NoEntry]
  /\ held = 0
  /\ obtained = [p \in Paths |-> "no"]
  /\ last = InitCall

InitLexer ==
  /\ FreshProgram
  /\ lexer \in {BootstrapLexer(s) : s \in ShortSources \cup BalancedLiterals}
  /\ parser = NoParser
  /\ rd = NoRD
  /\ seed = NoSeed
  /\ symtab = NoSymtab
  /\ layers = NoLayers
  /\ coerce = NoCoerce
  /\ estree = NoEstree
  /\ given = NoGiven

NextLexer ==
  \/ TokenizeNext
  \/ TokenizeReturn

SpecLexer == InitLexer /\ [][NextLexer]_vars

\* The same lexer on the sources of SpecLexer and on the multi-line ones.
InitLines ==
  /\ FreshProgram
  /\ lexer \in {BootstrapLexer(s) :
                  s \in ShortSources \cup BalancedLiterals \cup LineSources}
  /\ parser = NoParser
  /\ rd = NoRD
  /\ seed = NoSeed
  /\ symtab = NoSymtab
  /\ layers = NoLayers
  /\ coerce = NoCoerce
  /\ estree = NoEstree
  /\ given = NoGiven

SpecLines == InitLines /\ [][NextLexer]_vars

\* ------------------------------------------------------------------ the parser
\* BootstrapParser works on the token list of BootstrapLexer.tokenize().  The
\* model keeps the type of each token; the list always ends in its only EOF.
\* TokTypes are the token types the model draws its lists from: the operator
\* tokens of the precedence layers between parse_ternary and parse_power, the
\* declaration keywords and the other statement keywords are not among them,
\* so the productions below are the ones such a list can reach.
TokTypes == {"NAME", "SEMI", "KW_RETURN", "EQ", "LPAREN", "RPAREN", "COMMA"}

MaxToks == 4

RECURSIVE SeqsUpTo(_, _)
SeqsUpTo(S, n) ==
  IF n = 0 THEN {<<>>}
  ELSE LET shorter == SeqsUpTo(S, n - 1)
       IN shorter \cup {Append(s, x) : s \in shorter, x \in S}

TokenLists == {Append(s, "EOF") : s \in SeqsUpTo(TokTypes, MaxToks)}

\* BootstrapParser(tokens, src, file_path): positions count from 1 here.
BootstrapParser(tokens) ==
  [tokens |-> tokens, pos |-> 1, body |-> 0, status |-> "parsing", error |-> 0]

cur(ts, i) == IF i <= Len(ts) THEN ts[i] ELSE ts[Len(ts)]

p_peek(ts, i, offset) ==
  IF i + offset <= Len(ts) THEN ts[i + offset] ELSE ts[Len(ts)]

p_advance(ts, i) == IF cur(ts, i) # "EOF" THEN i + 1 ELSE i

p_at_end(ts, i) == cur(ts, i) = "EOF"

check(ts, i, types) == cur(ts, i) \in types

match(ts, i, types) == IF cur(ts, i) \in types THEN p_advance(ts, i) ELSE i

\* A production either returns with the parser at pos, or raises SyntaxError
\* with the parser left at the token named in the message.
Returns(i) == [ok |-> TRUE, pos |-> i]

Raises(i) == [ok |-> FALSE, pos |-> i]

expect(ts, i, ttype) ==
  IF cur(ts, i) = ttype THEN Returns(p_advance(ts, i)) ELSE Raises(i)

IsKeyword(t) == t = "KW_RETURN"

RECURSIVE parse_atomic_chain(_, _)
RECURSIVE Trailers(_, _)
RECURSIVE parse_call_args(_, _, _)
RECURSIVE parse_paren_or_tuple(_, _)
RECURSIVE TupleRest(_, _)

parse_expression(ts, i) == parse_atomic_chain(ts, i)

parse_atom(ts, i) ==
  LET t == cur(ts, i)
  IN IF t = "NAME" THEN Returns(p_advance(ts, i))
     ELSE IF t = "LPAREN" THEN parse_paren_or_tuple(ts, i)
     ELSE IF IsKeyword(t) THEN Returns(p_advance(ts, i))
     ELSE Raises(i)

\* The loop of _parse_paren_or_tuple over the elements of a tuple.
TupleRest(ts, i) ==
  IF check(ts, i, {"COMMA"})
  THEN LET j == p_advance(ts, i)
       IN IF check(ts, j, {"RPAREN"}) THEN Returns(j)
          ELSE LET v == parse_expression(ts, j)
               IN IF v.ok THEN TupleRest(ts, v.pos) ELSE v
  ELSE Returns(i)

parse_paren_or_tuple(ts, i) ==
  LET j == p_advance(ts, i)
  IN IF check(ts, j, {"RPAREN"}) THEN Returns(p_advance(ts, j))
     ELSE LET first == parse_expression(ts, j)
          IN IF ~first.ok THEN first
             ELSE IF check(ts, first.pos, {"COMMA"})
             THEN LET r == TupleRest(ts, first.pos)
                  IN IF r.ok THEN expect(ts, r.pos, "RPAREN") ELSE r
             ELSE expect(ts, first.pos, "RPAREN")

\* The loop of _parse_call_args; args tells whether an argument was parsed.
parse_call_args(ts, i, args) ==
  IF check(ts, i, {"RPAREN"}) \/ p_at_end(ts, i) THEN Returns(i)
  ELSE LET c == IF args THEN expect(ts, i, "COMMA") ELSE Returns(i)
       IN IF ~c.ok THEN c
          ELSE IF /\ check(ts, c.pos, {"NAME"})
                  /\ p_peek(ts, c.pos, 1) = "EQ"
                  /\ p_peek(ts, c.pos, 2) # "EQ"
          THEN LET v == parse_expression(ts,
                          p_advance(ts, p_advance(ts, c.pos)))
               IN IF v.ok THEN parse_call_args(ts, v.pos, TRUE) ELSE v
          ELSE LET arg == parse_expression(ts, c.pos)
               IN IF ~arg.ok THEN arg
                  ELSE IF /\ check(ts, arg.pos, {"COMMA"})
                          /\ p_peek(ts, arg.pos, 1) = "RPAREN"
                  THEN Returns(p_advance(ts, arg.pos))
                  ELSE parse_call_args(ts, arg.pos, TRUE)

\* The trailer loop of parse_atomic_chain.
Trailers(ts, i) ==
  IF check(ts, i, {"LPAREN"})
  THEN LET a == parse_call_args(ts, p_advance(ts, i), FALSE)
       IN IF ~a.ok THEN a
          ELSE LET r == expect(ts, a.pos, "RPAREN")
               IN IF r.ok THEN Trailers(ts, r.pos) ELSE r
  ELSE Returns(i)

parse_atomic_chain(ts, i) ==
  LET expr == parse_atom(ts, i)
  IN IF expr.ok THEN Trailers(ts, expr.pos) ELSE expr

\* The chained targets of the regular assignment in parse_assignment_or_expr.
RECURSIVE AssignmentValue(_, _)
AssignmentValue(ts, i) ==
  LET value == parse_expression(ts, i)
  IN IF ~value.ok THEN value
     ELSE IF check(ts, value.pos, {"EQ"})
     THEN AssignmentValue(ts, p_advance(ts, value.pos))
     ELSE Returns(match(ts, value.pos, {"SEMI"}))

parse_assignment_or_expr(ts, i) ==
  LET expr == parse_expression(ts, i)
  IN IF ~expr.ok THEN expr
     ELSE IF check(ts, expr.pos, {"EQ"})
     THEN AssignmentValue(ts, p_advance(ts, expr.pos))
     ELSE Returns(match(ts, expr.pos, {"SEMI"}))

parse_return_stmt(ts, i) ==
  LET k == expect(ts, i, "KW_RETURN")
  IN IF ~k.ok THEN k
     ELSE IF ~check(ts, k.pos, {"SEMI", "RBRACE"}) /\ ~p_at_end(ts, k.pos)
     THEN LET expr == parse_expression(ts, k.pos)
          IN IF expr.ok THEN Returns(match(ts, expr.pos, {"SEMI"})) ELSE expr
     ELSE Returns(match(ts, k.pos, {"SEMI"}))

parse_statement(ts, i) ==
  IF check(ts, i, {"SEMI"}) THEN Returns(p_advance(ts, i))
  ELSE IF cur(ts, i) = "KW_RETURN" THEN parse_return_stmt(ts, i)
  ELSE parse_assignment_or_expr(ts, i)

parse_element_stmt(ts, i) ==
  IF check(ts, i, {"SEMI"}) THEN Returns(p_advance(ts, i))
  ELSE parse_statement(ts, i)

\* One iteration of the loop of BootstrapParser.parse(): a statement joins the
\* body, or the SyntaxError of a production leaves parse() and bootstrap_parse.
ParseStep(p) ==
  LET r == parse_element_stmt(p.tokens, p.pos)
  IN IF r.ok THEN [p EXCEPT !.pos = r.pos, !.body = @ + 1]
     ELSE [p EXCEPT !.pos = r.pos, !.status = "raised", !.error = r.pos]

\* The end of parse(): the Module is returned.
ParseEnd(p) == [p EXCEPT !.status = "returned"]

ParseElement ==
  /\ parser.status = "parsing"
  /\ ~p_at_end(parser.tokens, parser.pos)
  /\ parser' = ParseStep(parser)
  /\ UNCHANGED <<progvars, lexer, rd, seed, symtab, layers, coerce, estree, given>>

ParseReturn ==
  /\ parser.status = "parsing"
  /\ p_at_end(parser.tokens, parser.pos)
  /\ parser' = ParseEnd(parser)
  /\ UNCHANGED <<progvars, lexer, rd, seed, symtab, layers, coerce, estree, given>>

\* What JacRDParserCore(...).parse_module() can do to JacRDParser.transform:
\* return a Module, return a Module and hold errors, return something that is
\* no Module, or raise.
CoreOutcomes == {"module", "module_with_errors", "not_module", "raised"}

JacRDParser == [NoRD EXCEPT !.status = "ready"]

transform_without_except(t, core) ==
  IF core = "raised"
  THEN [t EXCEPT !.status = "raised", !.core = core]
  ELSE [t EXCEPT !.status = "returned", !.core = core, !.module = "module"]

transform(t, core) ==
  IF core = "raised"
  THEN [t EXCEPT !.status = "returned", !.core = core, !.module = "stub",
                 !.has_syntax_errors = TRUE, !.errors_had = 1]
  ELSE IF core = "not_module"
  THEN [t EXCEPT !.status = "returned", !.core = core, !.module = "stub",
                 !.has_syntax_errors = TRUE, !.errors_had = 1]
  ELSE IF core = "module_with_errors"
  THEN [t EXCEPT !.status = "returned", !.core = core, !.module = "module",
                 !.has_syntax_errors = TRUE, !.errors_had = 1]
  ELSE [t EXCEPT !.status = "returned", !.core = core, !.module = "module"]

Transform ==
  /\ rd.status = "ready"
  /\ \E core \in CoreOutcomes : rd' = transform(rd, core)
  /\ UNCHANGED <<progvars, lexer, parser, seed, symtab, layers, coerce, estree, given>>

InitParser ==
  /\ FreshProgram
  /\ lexer = NoLexer
  /\ parser \in {BootstrapParser(ts) : ts \in TokenLists}
  /\ rd = JacRDParser
  /\ seed = NoSeed
  /\ symtab = NoSymtab
  /\ layers = NoLayers
  /\ coerce = NoCoerce
  /\ estree = NoEstree
  /\ given = NoGiven

NextParser ==
  \/ ParseElement
  \/ ParseReturn
  \/ Transform

SpecParser == InitParser /\ [][NextParser]_vars

\* ------------------------------------------------------------ the seed compiler
\* A module of the seed compiler's Jac subset is a list of declarations:
\*   obj N { has items: T [= default]; }      default: absent, or a literal
\*   impl N { def bar() { ... } }   (block)   impl N.bar() { ... }   (single)
ObjNames == {"Foo", "Bar"}

\* The default of the has field as written: none, an int literal, a list
\* literal, a dict literal, or a set literal such as {1}.
Defaults == {"none", "int", "list", "dict", "set"}

ImplForms == {"block", "single"}

MaxItems == 2

MaxInst == 2

MaxMut == 2

Items ==
  [kind : {"obj"}, name : ObjNames, default : Defaults, form : {"decl"}]
    \cup [kind : {"impl"}, name : ObjNames, default : {"none"},
          form : ImplForms]

Modules == SeqsUpTo(Items, MaxItems)

\* _parse_atom for the default: the Python node it returns, or "SyntaxError"
\* ({ must open key: value pairs, so {1} fails at expect("COLON")).
parse_default(default) ==
  CASE default = "int" -> "Constant"
    [] default = "list" -> "List"
    [] default = "dict" -> "Dict"
    [] default = "set" -> "SyntaxError"
    [] OTHER -> "None"

is_mutable_literal_never(node) == FALSE

is_mutable_literal(node) == node \in {"List", "Dict", "Set"}

\* The statements the compiler emits.
NoStmt ==
  [op |-> "none", name |-> "", attr |-> "", node |-> "None", wrapped |-> FALSE]

\* field(factory=lambda: node)
wrap_mutable_default(s) == [s EXCEPT !.wrapped = TRUE]

\* The AnnAssign of the field inside the ClassDef that _parse_obj returns.
parse_has(s, default) ==
  LET d == [s EXCEPT !.node = parse_default(default)]
  IN IF default # "none" /\ is_mutable_literal(d.node)
     THEN wrap_mutable_default(d)
     ELSE d

parse_obj(item) ==
  <<parse_has([NoStmt EXCEPT !.op = "ClassDef", !.name = item.name],
              item.default)>>

\* def _impl_<target>_<method>(self, ...) and <target>.<method> = that function
ImplStmts(target, method) ==
  <<[NoStmt EXCEPT !.op = "FunctionDef", !.name = target, !.attr = method],
    [NoStmt EXCEPT !.op = "Assign", !.name = target, !.attr = method]>>

parse_single_impl_method(target, method) == ImplStmts(target, method)

parse_impl(item) ==
  IF item.form = "single" THEN parse_single_impl_method(item.name, "bar")
  ELSE ImplStmts(item.name, "bar")

\* _parse_module_body: the statements of the declarations, in source order.
RECURSIVE parse_module_body(_)
parse_module_body(items) ==
  IF items = <<>> THEN <<>>
  ELSE (IF items[1].kind = "obj" THEN parse_obj(items[1])
        ELSE parse_impl(items[1])) \o parse_module_body(Tail(items))

NoClass == [defined |-> FALSE, methods |-> {}, default |-> "None", cell |-> 0]

\* compile_module: SyntaxError if a production raised, else the code object.
compile_module(items) ==
  LET body == parse_module_body(items)
      failed == \E k \in 1..Len(body) : body[k].node = "SyntaxError"
  IN [items |-> items,
      stmts |-> IF failed THEN <<>> ELSE body,
      status |-> IF failed THEN "syntax_error" ELSE "running",
      pc |-> 1,
      classes |-> [n \in ObjNames |-> NoClass],
      funcs |-> {},
      heap |-> <<>>,
      instances |-> <<>>,
      mutated |-> 0]

\* exec(code, ns): one module-level statement.
\*   ClassDef    binds the name to a new class; a default that is not wrapped
\*               is evaluated once, here
\*   FunctionDef binds _impl_<target>_<method>
\*   Assign      loads the target name (NameError when unbound) and sets the
\*               attribute on the class it is bound to
exec_stmt(s, st) ==
  IF st.op = "ClassDef"
  THEN IF st.wrapped
       THEN [s EXCEPT !.pc = @ + 1,
              !.classes[st.name] = [defined |-> TRUE, methods |-> {},
                                    default |-> "factory", cell |-> 0]]
       ELSE IF st.node \in {"List", "Dict", "Set"}
       THEN [s EXCEPT !.pc = @ + 1,
              !.heap = Append(@, 0),
              !.classes[st.name] = [defined |-> TRUE, methods |-> {},
                                    default |-> "shared",
                                    cell |-> Len(s.heap) + 1]]
       ELSE [s EXCEPT !.pc = @ + 1,
              !.classes[st.name] = [defined |-> TRUE, methods |-> {},
                                    default |-> st.node, cell |-> 0]]
  ELSE IF st.op = "FunctionDef"
  THEN [s EXCEPT !.pc = @ + 1, !.funcs = @ \cup {<<st.name, st.attr>>}]
  ELSE IF s.classes[st.name].defined
  THEN [s EXCEPT !.pc = @ + 1, !.classes[st.name].methods = @ \cup {st.attr}]
  ELSE [s EXCEPT !.status = "NameError"]

\* seed_exec returns the namespace once the last statement has run.
exec_end(s) == [s EXCEPT !.status = "done"]

\* N(): the instance's field is a fresh value from the factory when the
\* default was wrapped, and the class's one default object otherwise.
construct(s, n) ==
  IF s.classes[n].default = "factory"
  THEN [s EXCEPT !.heap = Append(@, 0),
                 !.instances = Append(@, [cls |-> n, ref |-> Len(s.heap) + 1]),
                 !.mutated = 0]
  ELSE [s EXCEPT !.instances = Append(@, [cls |-> n,
                                          ref |-> s.classes[n].cell]),
                 !.mutated = 0]

\* instance.items.append(1), or instance.items[k] = v: the object the field
\* refers to changes in place.  A cell holds the number of changes made.
mutate(s, i) ==
  [s EXCEPT !.heap[s.instances[i].ref] = @ + 1, !.mutated = i]

\* The value of the field of instance i.
FieldValue(s, i) ==
  IF s.instances[i].ref = 0 THEN 0 ELSE s.heap[s.instances[i].ref]

HasMethod(s, i, m) == m \in s.classes[s.instances[i].cls].methods

ExecStmt ==
  /\ seed.status = "running"
  /\ seed.pc <= Len(seed.stmts)
  /\ seed' = exec_stmt(seed, seed.stmts[seed.pc])
  /\ UNCHANGED <<progvars, lexer, parser, rd, symtab, layers, coerce, estree, given>>

ExecEnd ==
  /\ seed.status = "running"
  /\ seed.pc > Len(seed.stmts)
  /\ seed' = exec_end(seed)
  /\ UNCHANGED <<progvars, lexer, parser, rd, symtab, layers, coerce, estree, given>>

Construct ==
  /\ seed.status = "done"
  /\ Len(seed.instances) < MaxInst
  /\ \E n \in ObjNames :
       /\ seed.classes[n].defined
       /\ seed' = construct(seed, n)
  /\ UNCHANGED <<progvars, lexer, parser, rd, symtab, layers, coerce, estree, given>>

Mutate ==
  /\ seed.status = "done"
  /\ \E i \in 1..Len(seed.instances) :
       /\ seed.instances[i].ref # 0
       /\ seed.heap[seed.instances[i].ref] < MaxMut
       /\ seed' = mutate(seed, i)
  /\ UNCHANGED <<progvars, lexer, parser, rd, symtab, layers, coerce, estree, given>>

InitSeed ==
  /\ FreshProgram
  /\ lexer = NoLexer
  /\ parser = NoParser
  /\ rd = NoRD
  /\ seed \in {compile_module(items) : items \in Modules}
  /\ symtab = NoSymtab
  /\ layers = NoLayers
  /\ coerce = NoCoerce
  /\ estree = NoEstree
  /\ given = NoGiven

NextSeed ==
  \/ ExecStmt
  \/ ExecEnd
  \/ Construct
  \/ Mutate

SpecSeed == InitSeed /\ [][NextSeed]_vars

\* ------------------------------------------------------------- the symbol table
\* Scope, Symbol, ImplRecord and BootstrapSymtab of the Layer 1 symbol table.
\* A symbol table is a list of scopes; scope 1 is the root, and a scope names
\* its parent by index (0: none).  A symbol is identified by the scope that
\* defines it and its name.
SymNames == {"x", "y", "Foo", "get", "set", "MissingClass"}

VarNames == {"x", "y"}

VarKinds == {"var", "param"}

MaxScopes == 3

MaxDecls == 4

NoSymbol == [scope |-> 0, name |-> "", kind |-> "none"]

NoFound == [scope |-> 0, name |-> "", result |-> NoSymbol]

\* Scope(name=..., parent=..., scope_kind=...)
Scope(name, parent, scope_kind) ==
  [name |-> name, parent |-> parent, scope_kind |-> scope_kind,
   symbols |-> [n \in SymNames |-> "none"]]

\* BootstrapSymtab(): the root scope, no impl records.
BootstrapSymtab ==
  [scopes |-> <<Scope("mod", 0, "module")>>, module |-> <<>>, impls |-> <<>>,
   unmatched |-> <<>>, status |-> "built", found |-> NoFound]

\* scope.define(name, kind, node)
define(tab, s, n, kind) == [tab EXCEPT !.scopes[s].symbols[n] = kind]

\* scope.lookup_local(name)
lookup_local(tab, s, n) ==
  IF tab.scopes[s].symbols[n] = "none" THEN NoSymbol
  ELSE [scope |-> s, name |-> n, kind |-> tab.scopes[s].symbols[n]]

lookup_local_only(tab, s, n) == lookup_local(tab, s, n)

\* scope.lookup(name): this scope, then the parent chain.
RECURSIVE lookup(_, _, _)
lookup(tab, s, n) ==
  IF lookup_local(tab, s, n) # NoSymbol THEN lookup_local(tab, s, n)
  ELSE IF tab.scopes[s].parent = 0 THEN NoSymbol
  ELSE lookup(tab, tab.scopes[s].parent, n)

\* scope.define_with_scope(name, kind, node, scope_kind): the symbol and the
\* child scope it owns.
define_with_scope(tab, s, n, kind, scope_kind) ==
  LET t == define(tab, s, n, kind)
  IN [t EXCEPT !.scopes = Append(@, Scope(n, s, scope_kind))]

\* scope.find_child(name): the index of the child scope of that name, or 0.
find_child(tab, s, n) ==
  LET ks == {k \in 1..Len(tab.scopes) :
               tab.scopes[k].parent = s /\ tab.scopes[k].name = n}
  IN IF ks = {} THEN 0 ELSE CHOOSE k \in ks : \A j \in ks : k <= j

\* The declarations of a module: obj N { }, glob x, impl T { def m ... }.
Decls ==
  [kind : {"obj"}, name : {"Foo"}, methods : {{}}]
    \cup [kind : {"glob"}, name : {"x"}, methods : {{}}]
    \cup [kind : {"impl"}, name : {"Foo", "x", "MissingClass"},
          methods : {{"get"}, {"set"}, {"get", "set"}}]

\* No name is declared twice, and no two impls of one target share a method.
Collides(module) ==
  \E i, j \in 1..Len(module) :
    /\ i < j
    /\ module[i].name = module[j].name
    /\ \/ module[i].kind # "impl" /\ module[j].kind # "impl"
       \/ /\ module[i].kind = "impl" /\ module[j].kind = "impl"
          /\ module[i].methods \cap module[j].methods # {}

SymModules == {m \in SeqsUpTo(Decls, MaxDecls) : ~Collides(m)}

ImplRecord(target_name, methods) ==
  [target_name |-> target_name, methods |-> methods]

\* BootstrapSymtab.build(module): one walk in source order.
RECURSIVE build_decls(_, _)
build_decls(tab, decls) ==
  IF decls = <<>> THEN tab
  ELSE LET d == decls[1]
           t == IF d.kind = "obj"
                THEN define_with_scope(tab, 1, d.name, "obj", "class")
                ELSE IF d.kind = "glob"
                THEN define(tab, 1, d.name, "var")
                ELSE [tab EXCEPT !.impls =
                        Append(@, ImplRecord(d.name, d.methods))]
       IN build_decls(t, Tail(decls))

build(module) ==
  [build_decls([BootstrapSymtab EXCEPT !.module = module], module)
     EXCEPT !.status = "built"]

\* The methods of one impl record become method symbols of the target's scope.
RECURSIVE attach(_, _, _)
attach(tab, s, methods) ==
  IF methods = {} THEN tab
  ELSE LET m == CHOOSE x \in methods : TRUE
       IN attach(define(tab, s, m, "method"), s, methods \ {m})

\* A container symbol is one that owns a class scope.
IsContainer(sym) == sym.kind \in {"obj", "enum"}

match_one_first_only(tab, k) ==
  LET r == tab.impls[k]
      sym == lookup_local(tab, 1, r.target_name)
      seen == \E j \in 1..(k - 1) : tab.impls[j].target_name = r.target_name
  IN IF IsContainer(sym) /\ ~seen
     THEN attach(tab, find_child(tab, 1, r.target_name), r.methods)
     ELSE IF IsContainer(sym) THEN tab
     ELSE [tab EXCEPT !.unmatched = Append(@, r)]

match_one(tab, k) ==
  LET r == tab.impls[k]
      sym == lookup_local(tab, 1, r.target_name)
  IN IF IsContainer(sym)
     THEN attach(tab, find_child(tab, 1, r.target_name), r.methods)
     ELSE [tab EXCEPT !.unmatched = Append(@, r)]

\* BootstrapSymtab.match_impls(): every record, in the order recorded.
RECURSIVE match_from(_, _)
match_from(tab, k) ==
  IF k > Len(tab.impls) THEN tab
  ELSE match_from(match_one(tab, k), k + 1)

match_impls(tab) == [match_from(tab, 1) EXCEPT !.status = "matched"]

get_unmatched_impls(tab) == tab.unmatched

\* The scopes from s up to the root.
RECURSIVE Chain(_, _)
Chain(tab, s) ==
  IF tab.scopes[s].parent = 0 THEN <<s>>
  ELSE <<s>> \o Chain(tab, tab.scopes[s].parent)

\* Scope(name=..., parent=p, scope_kind=...) made by hand, as the tests do.
NewScope ==
  /\ symtab.status = "scopes"
  /\ Len(symtab.scopes) < MaxScopes
  /\ \E p \in 1..Len(symtab.scopes) :
       symtab' = [symtab EXCEPT !.scopes = Append(@, Scope("func", p, "func"))]
  /\ UNCHANGED <<progvars, lexer, parser, rd, seed, layers, coerce, estree, given>>

\* scope.define(name, kind, None) of a name the scope does not define yet.
Define ==
  /\ symtab.status = "scopes"
  /\ \E s \in 1..Len(symtab.scopes), n \in VarNames, kind \in VarKinds :
       /\ lookup_local(symtab, s, n) = NoSymbol
       /\ symtab' = [define(symtab, s, n, kind) EXCEPT !.found = NoFound]
  /\ UNCHANGED <<progvars, lexer, parser, rd, seed, layers, coerce, estree, given>>

\* scope.lookup(name); the caller keeps the result.
Lookup ==
  /\ symtab.status = "scopes"
  /\ \E s \in 1..Len(symtab.scopes), n \in VarNames :
       symtab' = [symtab EXCEPT !.found =
                    [scope |-> s, name |-> n, result |-> lookup(symtab, s, n)]]
  /\ UNCHANGED <<progvars, lexer, parser, rd, seed, layers, coerce, estree, given>>

InitScope ==
  /\ FreshProgram
  /\ lexer = NoLexer
  /\ parser = NoParser
  /\ rd = NoRD
  /\ seed = NoSeed
  /\ symtab = [BootstrapSymtab EXCEPT !.status = "scopes"]
  /\ layers = NoLayers
  /\ coerce = NoCoerce
  /\ estree = NoEstree
  /\ given = NoGiven

NextScope ==
  \/ NewScope
  \/ Define
  \/ Lookup

SpecScope == InitScope /\ [][NextScope]_vars

\* st.match_impls() after st.build(mod).
MatchImpls ==
  /\ symtab.status = "built"
  /\ symtab' = match_impls(symtab)
  /\ UNCHANGED <<progvars, lexer, parser, rd, seed, layers, coerce, estree, given>>

\* foo.scope.lookup_local("get") and the like, after matching.
LookupLocal ==
  /\ symtab.status = "matched"
  /\ \E s \in 1..Len(symtab.scopes), n \in {"get", "set"} :
       symtab' = [symtab EXCEPT !.found =
                    [scope |-> s, name |-> n,
                     result |-> lookup_local(symtab, s, n)]]
  /\ UNCHANGED <<progvars, lexer, parser, rd, seed, layers, coerce, estree, given>>

InitSymtab ==
  /\ FreshProgram
  /\ lexer = NoLexer
  /\ parser = NoParser
  /\ rd = NoRD
  /\ seed = NoSeed
  /\ symtab \in {build(m) : m \in SymModules}
  /\ layers = NoLayers
  /\ coerce = NoCoerce
  /\ estree = NoEstree
  /\ given = NoGiven

NextSymtab ==
  \/ MatchImpls
  \/ LookupLocal

SpecSymtab == InitSymtab /\ [][NextSymtab]_vars

\* ------------------------------------------------------------------ the layers
\* One program, `glob r = <expression>;`, compiled and executed by Layer 0
\* (the seed compiler) and by the pipeline's bootstrap lexer and parser.  The
\* expression is a character sequence without white space over ExprChars;
\* both lexers end its token list with the SEMI of the statement and EOF.
ExprChars == {"1", "2", "+", "-", "*", "<", "|", "^", "&"}

MaxExprLen == 5

ExprSources == SeqsUpTo(ExprChars, MaxExprLen) \ {<<>>}

IsDigit(c) == c \in {"1", "2"}

DigitValue(c) == IF c = "1" THEN 1 ELSE 2

\* The result of a parsing function: a tree and the next position, or the
\* SyntaxError it raised.
Parsed(t, i) == [ok |-> TRUE, t |-> t, pos |-> i]

Failed(i) == [ok |-> FALSE, t |-> <<>>, pos |-> i]

At(s, i) == IF i <= Len(s) THEN s[i] ELSE ""

\* ---- Layer 0: seed_compiler.Lexer
\* Lexer.read_number: the maximal run of digits from i, as [value, pos].
RECURSIVE read_number(_, _, _)
read_number(s, i, acc) ==
  IF IsDigit(At(s, i))
    THEN read_number(s, i + 1, 10 * acc + DigitValue(s[i]))
    ELSE [value |-> acc, pos |-> i]

\* TWO_CHAR_OPS: no pair of ExprChars is one of its keys ("==", "!=", "<=",
\* ">=", "+=", "-=", "*=", "/=", "//", "->").
TWO_CHAR_OPS == {}

\* SINGLE_CHAR_OPS, on ExprChars: "^" and "&" are not keys.
SINGLE_CHAR_OPS ==
  [c \in {"+", "-", "*", "<", "|"} |->
     CASE c = "+" -> "PLUS" [] c = "-" -> "MINUS" [] c = "*" -> "STAR"
       [] c = "<" -> "LT" [] c = "|" -> "PIPE"]

Token(kind, value) == [kind |-> kind, value |-> value]

\* Lexer.tokenize: the token list ending in EOF, or the SyntaxError of
\* self.error("Unexpected character").
RECURSIVE seed_tokenize(_, _, _)
seed_tokenize(s, i, toks) ==
  IF i > Len(s)
    THEN [ok |-> TRUE, tokens |-> toks \o <<Token("SEMI", 0), Token("EOF", 0)>>]
  ELSE IF IsDigit(s[i])
    THEN LET n == read_number(s, i, 0)
         IN seed_tokenize(s, n.pos, Append(toks, Token("INT", n.value)))
  ELSE IF <<s[i], At(s, i + 1)>> \in TWO_CHAR_OPS
    THEN seed_tokenize(s, i + 2, Append(toks, Token("TWO", 0)))
  ELSE IF s[i] \in DOMAIN SINGLE_CHAR_OPS
    THEN seed_tokenize(s, i + 1, Append(toks, Token(SINGLE_CHAR_OPS[s[i]], 0)))
  ELSE [ok |-> FALSE, tokens |-> toks]

\* left op right, or the first operand alone when op is "".
Joined(node, left, op, right) ==
  IF op = "" THEN right ELSE <<node, op, left, right>>

\* ---- Layer 0: SeedCompiler expression levels, emitting Python ast nodes
\* <<"Constant", n>>, <<"UnaryOp", op, operand>>, <<"BinOp", op, left, right>>
\* and <<"Compare", left, ops, comparators>>.
seed_parse_atom(ts, i) ==
  IF ts[i].kind = "INT" THEN Parsed(<<"Constant", ts[i].value>>, i + 1)
  ELSE Failed(i)

\* No DOT, LBRACKET or LPAREN token comes from ExprChars: the trailer loop of
\* _parse_postfix ends at once.
seed_parse_postfix(ts, i) == seed_parse_atom(ts, i)

RECURSIVE seed_parse_unary(_, _)
seed_parse_unary(ts, i) ==
  IF ts[i].kind = "MINUS"
    THEN LET operand == seed_parse_unary(ts, i + 1)
         IN IF operand.ok
              THEN Parsed(<<"UnaryOp", "USub", operand.t>>, operand.pos)
              ELSE operand
  ELSE IF ts[i].kind = "PLUS" THEN seed_parse_unary(ts, i + 1)
  ELSE seed_parse_postfix(ts, i)

\* _parse_multiplication; "/", "//" and "%" are not in ExprChars.
\* MultiplicationStep is the loop body once the operand right is parsed; op is "" for
\* the first operand.
RECURSIVE MultiplicationLoop(_, _, _, _)
MultiplicationStep(ts, left, op, right) ==
  IF ~right.ok THEN right
  ELSE IF ts[right.pos].kind = "STAR"
    THEN MultiplicationLoop(ts, Joined("BinOp", left, op, right.t),
         "Mult", right.pos + 1)
  ELSE Parsed(Joined("BinOp", left, op, right.t), right.pos)

MultiplicationLoop(ts, left, op, i) == MultiplicationStep(ts, left, op, seed_parse_unary(ts, i))

seed_parse_multiplication(ts, i) == MultiplicationLoop(ts, <<>>, "", i)

\* _parse_addition.
\* AdditionStep is the loop body once the operand right is parsed; op is "" for
\* the first operand.
RECURSIVE AdditionLoop(_, _, _, _)
AdditionStep(ts, left, op, right) ==
  IF ~right.ok THEN right
  ELSE IF ts[right.pos].kind \in {"PLUS", "MINUS"}
    THEN AdditionLoop(ts, Joined("BinOp", left, op, right.t),
         IF ts[right.pos].kind = "PLUS" THEN "Add" ELSE "Sub", right.pos + 1)
  ELSE Parsed(Joined("BinOp", left, op, right.t), right.pos)

AdditionLoop(ts, left, op, i) == AdditionStep(ts, left, op, seed_parse_multiplication(ts, i))

seed_parse_addition(ts, i) == AdditionLoop(ts, <<>>, "", i)

\* _parse_comparison; _match_cmp_op on the tokens of ExprChars: only LT.
\* The operands so far are kept in one sequence, the first being the left one.
RECURSIVE ComparisonLoop(_, _, _, _)
ComparisonStep(ts, operands, ops, right) ==
  IF ~right.ok THEN right
  ELSE IF ts[right.pos].kind = "LT"
    THEN ComparisonLoop(ts, Append(operands, right.t), Append(ops, "Lt"),
         right.pos + 1)
  ELSE IF ops # <<>>
    THEN Parsed(<<"Compare", Head(Append(operands, right.t)), ops,
                  Tail(Append(operands, right.t))>>, right.pos)
  ELSE right

ComparisonLoop(ts, operands, ops, i) == ComparisonStep(ts, operands, ops, seed_parse_addition(ts, i))

seed_parse_comparison(ts, i) == ComparisonLoop(ts, <<>>, <<>>, i)

\* _parse_expr -> _parse_ternary -> _parse_or -> _parse_and -> _parse_not:
\* without a keyword token each of them returns what the next level returns.
seed_parse_expr(ts, i) == seed_parse_comparison(ts, i)

\* expect("SEMI") after the expression value.
ExpectSemi(ts, value) ==
  IF value.ok /\ ts[value.pos].kind = "SEMI" THEN value
  ELSE Failed(value.pos)

\* _parse_glob after `glob r =`: the expression, then expect("SEMI").
seed_parse_glob(ts) == ExpectSemi(ts, seed_parse_expr(ts, 1))

SyntaxError == [status |-> "SyntaxError", py |-> <<>>, rest |-> <<>>]

\* The code object of a parsed statement: the tree assigned to r.
SeedModule(value) ==
  IF value.ok THEN [status |-> "ok", py |-> value.t, rest |-> <<>>]
  ELSE SyntaxError

SeedParsed(lexed) ==
  IF ~lexed.ok THEN SyntaxError ELSE SeedModule(seed_parse_glob(lexed.tokens))

\* seed_compile: the Python tree assigned to r, or SyntaxError.
seed_compile(s) == SeedParsed(seed_tokenize(s, 1, <<>>))

\* ---- the pipeline: BootstrapLexer on ExprChars
\* scan_number on a run of decimal digits.
RECURSIVE scan_number(_, _, _)
scan_number(s, i, acc) ==
  IF IsDigit(At(s, i))
    THEN scan_number(s, i + 1, 10 * acc + DigitValue(s[i]))
    ELSE [value |-> acc, pos |-> i]

\* scan_operator, longest match first, on ExprChars: the three-character
\* operators "<--" and "<++", the two-character operators "**", "<<", "&&",
\* "||" and "<|", then the single characters.
scan_operator_at(s, i) ==
  LET three == <<At(s, i), At(s, i + 1), At(s, i + 2)>>
      two == <<At(s, i), At(s, i + 1)>>
  IN CASE three = <<"<", "-", "-">> -> [type |-> "ARROW_L", pos |-> i + 3]
       [] three = <<"<", "+", "+">> -> [type |-> "CARROW_L", pos |-> i + 3]
       [] OTHER ->
          CASE two = <<"*", "*">> -> [type |-> "STAR_POW", pos |-> i + 2]
            [] two = <<"<", "<">> -> [type |-> "LSHIFT", pos |-> i + 2]
            [] two = <<"&", "&">> -> [type |-> "KW_AND", pos |-> i + 2]
            [] two = <<"|", "|">> -> [type |-> "KW_OR", pos |-> i + 2]
            [] two = <<"<", "|">> -> [type |-> "PIPE_BKWD", pos |-> i + 2]
            [] OTHER ->
               [type |-> CASE s[i] = "+" -> "PLUS" [] s[i] = "-" -> "MINUS"
                           [] s[i] = "*" -> "STAR_MUL" [] s[i] = "<" -> "LT"
                           [] s[i] = "&" -> "BW_AND" [] s[i] = "|" -> "BW_OR"
                           [] s[i] = "^" -> "BW_XOR",
                pos |-> i + 1]

UToken(type, value) == [type |-> type, value |-> value]

\* BootstrapLexer.tokenize in normal mode.
RECURSIVE bootstrap_tokenize(_, _, _)
bootstrap_tokenize(s, i, toks) ==
  IF i > Len(s) THEN toks \o <<UToken("SEMI", 0), UToken("EOF", 0)>>
  ELSE IF IsDigit(s[i])
    THEN LET n == scan_number(s, i, 0)
         IN bootstrap_tokenize(s, n.pos, Append(toks, UToken("INT", n.value)))
  ELSE LET op == scan_operator_at(s, i)
       IN bootstrap_tokenize(s, op.pos, Append(toks, UToken(op.type, 0)))

\* ---- the pipeline: BootstrapParser expression levels, building uni nodes
\* <<"Int", n>>, <<"UnaryExpr", op, operand>>, <<"BinaryExpr", op, left,
\* right>>, <<"CompareExpr", left, ops, rights>>, <<"BoolExpr", op, values>>,
\* <<"Name", token type>>.
\* parse_atomic_chain: parse_atom on an INT token, or on a keyword token
\* ("&&" and "||" are KW_AND and KW_OR), which it takes as a name; no trailer
\* token comes from ExprChars.
u_atomic_chain(ts, i) ==
  IF ts[i].type = "INT" THEN Parsed(<<"Int", ts[i].value>>, i + 1)
  ELSE IF ts[i].type \in {"KW_AND", "KW_OR"}
    THEN Parsed(<<"Name", ts[i].type>>, i + 1)
  ELSE Failed(i)

RECURSIVE parse_factor(_, _)
parse_power(ts, i) ==
  LET base == u_atomic_chain(ts, i)
  IN IF ~base.ok THEN base
     ELSE IF ts[base.pos].type = "STAR_POW"
       THEN LET exp == parse_factor(ts, base.pos + 1)
            IN IF exp.ok
                 THEN Parsed(<<"BinaryExpr", "STAR_POW", base.t, exp.t>>,
                             exp.pos)
                 ELSE exp
     ELSE base

parse_factor(ts, i) ==
  IF ts[i].type \in {"PLUS", "MINUS", "BW_NOT"}
    THEN LET operand == parse_factor(ts, i + 1)
         IN IF operand.ok
              THEN Parsed(<<"UnaryExpr", ts[i].type, operand.t>>, operand.pos)
              ELSE operand
    ELSE parse_power(ts, i)

\* parse_term: expr * expr, expr / expr, expr // expr, expr % expr.
\* TermStep is the loop body once the operand right is parsed; op is "" for
\* the first operand.
RECURSIVE TermLoop(_, _, _, _)
TermStep(ts, left, op, right) ==
  IF ~right.ok THEN right
  ELSE IF ts[right.pos].type \in {"STAR_MUL", "DIV", "FLOOR_DIV", "MOD"}
    THEN TermLoop(ts, Joined("BinaryExpr", left, op, right.t),
         ts[right.pos].type, right.pos + 1)
  ELSE Parsed(Joined("BinaryExpr", left, op, right.t), right.pos)

TermLoop(ts, left, op, i) == TermStep(ts, left, op, parse_factor(ts, i))

parse_term(ts, i) == TermLoop(ts, <<>>, "", i)

\* parse_arith: expr + expr, expr - expr.
\* ArithStep is the loop body once the operand right is parsed; op is "" for
\* the first operand.
RECURSIVE ArithLoop(_, _, _, _)
ArithStep(ts, left, op, right) ==
  IF ~right.ok THEN right
  ELSE IF ts[right.pos].type \in {"PLUS", "MINUS"}
    THEN ArithLoop(ts, Joined("BinaryExpr", left, op, right.t),
         ts[right.pos].type, right.pos + 1)
  ELSE Parsed(Joined("BinaryExpr", left, op, right.t), right.pos)

ArithLoop(ts, left, op, i) == ArithStep(ts, left, op, parse_term(ts, i))

parse_arith(ts, i) == ArithLoop(ts, <<>>, "", i)

\* parse_shift: expr << expr, expr >> expr.
\* ShiftStep is the loop body once the operand right is parsed; op is "" for
\* the first operand.
RECURSIVE ShiftLoop(_, _, _, _)
ShiftStep(ts, left, op, right) ==
  IF ~right.ok THEN right
  ELSE IF ts[right.pos].type \in {"LSHIFT", "RSHIFT"}
    THEN ShiftLoop(ts, Joined("BinaryExpr", left, op, right.t),
         ts[right.pos].type, right.pos + 1)
  ELSE Parsed(Joined("BinaryExpr", left, op, right.t), right.pos)

ShiftLoop(ts, left, op, i) == ShiftStep(ts, left, op, parse_arith(ts, i))

parse_shift(ts, i) == ShiftLoop(ts, <<>>, "", i)

\* parse_bitand: expr & expr.
\* BitAndStep is the loop body once the operand right is parsed; op is "" for
\* the first operand.
RECURSIVE BitAndLoop(_, _, _, _)
BitAndStep(ts, left, op, right) ==
  IF ~right.ok THEN right
  ELSE IF ts[right.pos].type \in {"BW_AND"}
    THEN BitAndLoop(ts, Joined("BinaryExpr", left, op, right.t),
         ts[right.pos].type, right.pos + 1)
  ELSE Parsed(Joined("BinaryExpr", left, op, right.t), right.pos)

BitAndLoop(ts, left, op, i) == BitAndStep(ts, left, op, parse_shift(ts, i))

parse_bitand(ts, i) == BitAndLoop(ts, <<>>, "", i)

\* parse_bitxor: expr ^ expr.
\* BitXorStep is the loop body once the operand right is parsed; op is "" for
\* the first operand.
RECURSIVE BitXorLoop(_, _, _, _)
BitXorStep(ts, left, op, right) ==
  IF ~right.ok THEN right
  ELSE IF ts[right.pos].type \in {"BW_XOR"}
    THEN BitXorLoop(ts, Joined("BinaryExpr", left, op, right.t),
         ts[right.pos].type, right.pos + 1)
  ELSE Parsed(Joined("BinaryExpr", left, op, right.t), right.pos)

BitXorLoop(ts, left, op, i) == BitXorStep(ts, left, op, parse_bitand(ts, i))

parse_bitxor(ts, i) == BitXorLoop(ts, <<>>, "", i)

\* parse_bitor: expr | expr.
\* BitOrStep is the loop body once the operand right is parsed; op is "" for
\* the first operand.
RECURSIVE BitOrLoop(_, _, _, _)
BitOrStep(ts, left, op, right) ==
  IF ~right.ok THEN right
  ELSE IF ts[right.pos].type \in {"BW_OR"}
    THEN BitOrLoop(ts, Joined("BinaryExpr", left, op, right.t),
         ts[right.pos].type, right.pos + 1)
  ELSE Parsed(Joined("BinaryExpr", left, op, right.t), right.pos)

BitOrLoop(ts, left, op, i) == BitOrStep(ts, left, op, parse_bitxor(ts, i))

parse_bitor(ts, i) == BitOrLoop(ts, <<>>, "", i)

\* parse_compare; _COMPARE_OPS on the tokens of ExprChars: only LT.
\* The operands so far are kept in one sequence, the first being the left one.
RECURSIVE CompareLoop(_, _, _, _)
CompareStep(ts, operands, ops, right) ==
  IF ~right.ok THEN right
  ELSE IF ts[right.pos].type = "LT"
    THEN CompareLoop(ts, Append(operands, right.t), Append(ops, "LT"),
         right.pos + 1)
  ELSE IF ops # <<>>
    THEN Parsed(<<"CompareExpr", Head(Append(operands, right.t)), ops,
                  Tail(Append(operands, right.t))>>, right.pos)
  ELSE right

CompareLoop(ts, operands, ops, i) == CompareStep(ts, operands, ops, parse_bitor(ts, i))

parse_compare(ts, i) == CompareLoop(ts, <<>>, <<>>, i)

\* No NOT token comes from ExprChars.
parse_not_expr(ts, i) == parse_compare(ts, i)

\* parse_and_expr: one BoolExpr over all the operands.
RECURSIVE AndLoop(_, _, _)
AndStep(ts, values, val) ==
  IF ~val.ok THEN val
  ELSE IF ts[val.pos].type = "KW_AND"
    THEN AndLoop(ts, Append(values, val.t), val.pos + 1)
  ELSE IF values = <<>> THEN val
  ELSE Parsed(<<"BoolExpr", "KW_AND", Append(values, val.t)>>, val.pos)

AndLoop(ts, values, i) == AndStep(ts, values, parse_not_expr(ts, i))

parse_and_expr(ts, i) == AndLoop(ts, <<>>, i)

\* parse_or_expr: one BoolExpr over all the operands.
RECURSIVE OrLoop(_, _, _)
OrStep(ts, values, val) ==
  IF ~val.ok THEN val
  ELSE IF ts[val.pos].type = "KW_OR"
    THEN OrLoop(ts, Append(values, val.t), val.pos + 1)
  ELSE IF values = <<>> THEN val
  ELSE Parsed(<<"BoolExpr", "KW_OR", Append(values, val.t)>>, val.pos)

OrLoop(ts, values, i) == OrStep(ts, values, parse_and_expr(ts, i))

parse_or_expr(ts, i) == OrLoop(ts, <<>>, i)

\* No KW_IF token comes from ExprChars.
parse_ternary(ts, i) == parse_or_expr(ts, i)

\* match(SEMI) after the expression value: the semicolon is optional.
MatchSemi(ts, value) ==
  IF ~value.ok THEN value
  ELSE Parsed(value.t, IF ts[value.pos].type = "SEMI" THEN value.pos + 1
                       ELSE value.pos)

\* parse_global_var after `glob r =`: parse_expression, then match(SEMI).
parse_global_var(ts) == MatchSemi(ts, parse_ternary(ts, 1))

\* The loop of parse() after the glob statement: parse_element_stmt until
\* EOF.  A SEMI is a statement of its own; any other token starts, through
\* parse_statement, the expression statement of parse_assignment_or_expr,
\* whose SEMI is optional too.
RECURSIVE parse_rest(_, _, _)
ExprStmt(ts, body, e) ==
  IF ~e.ok THEN e
  ELSE parse_rest(ts, IF ts[e.pos].type = "SEMI" THEN e.pos + 1 ELSE e.pos,
                  Append(body, <<"ExprStmt", e.t>>))

parse_rest(ts, i, body) ==
  IF ts[i].type = "EOF" THEN Parsed(body, i)
  ELSE IF ts[i].type = "SEMI" THEN parse_rest(ts, i + 1, Append(body, <<"Semi">>))
  ELSE ExprStmt(ts, body, parse_ternary(ts, i))

\* The Python operator PyastGenPass emits for a token type.
PyOp(type) ==
  CASE type = "PLUS" -> "Add" [] type = "MINUS" -> "Sub"
    [] type = "STAR_MUL" -> "Mult" [] type = "STAR_POW" -> "Pow"
    [] type = "LSHIFT" -> "LShift" [] type = "BW_AND" -> "BitAnd"
    [] type = "BW_XOR" -> "BitXor" [] type = "BW_OR" -> "BitOr"
    [] type = "KW_AND" -> "And" [] type = "KW_OR" -> "Or" [] type = "LT" -> "Lt"

\* PyastGenPass on an expression: the Python node of each uni node.
RECURSIVE pyast_gen(_)
pyast_gen(u) ==
  CASE u[1] = "Int" -> <<"Constant", u[2]>>
    [] u[1] = "Name" -> <<"Name", u[2]>>
    [] u[1] = "UnaryExpr" ->
         <<"UnaryOp", IF u[2] = "PLUS" THEN "UAdd" ELSE "USub", pyast_gen(u[3])>>
    [] u[1] = "BinaryExpr" ->
         <<"BinOp", PyOp(u[2]), pyast_gen(u[3]), pyast_gen(u[4])>>
    [] u[1] = "CompareExpr" ->
         <<"Compare", pyast_gen(u[2]), [k \in DOMAIN u[3] |-> PyOp(u[3][k])],
           [k \in DOMAIN u[4] |-> pyast_gen(u[4][k])]>>
    [] u[1] = "BoolExpr" ->
         <<"BoolOp", PyOp(u[2]), [k \in DOMAIN u[3] |-> pyast_gen(u[3][k])]>>

\* The code of a parsed module: PyastGenPass on the value assigned to r and on
\* the statements after it.
PipelineModule(value, rest) ==
  IF value.ok /\ rest.ok
    THEN [status |-> "ok", py |-> pyast_gen(value.t),
          rest |-> [k \in DOMAIN rest.t |->
                      IF rest.t[k][1] = "Semi" THEN <<"Pass">>
                      ELSE <<"Expr", pyast_gen(rest.t[k][2])>>]]
    ELSE SyntaxError

\* BootstrapParser.parse on `glob r = ...`: the glob statement, then the rest.
PipelineRest(ts, value) ==
  PipelineModule(value, parse_rest(ts, IF value.ok THEN value.pos ELSE 1, <<>>))

PipelineParsed(ts) == PipelineRest(ts, parse_global_var(ts))

\* The pipeline on the same source: the Python tree assigned to r, or the
\* SyntaxError that leaves the module without bytecode.
pipeline_compile(s) == PipelineParsed(bootstrap_tokenize(s, 1, <<>>))

\* exec of `r = <tree>`: the final value of the global r.  A bool is the
\* int it equals (True == 1, False == 0).  Only the operators of programs
\* that both layers compile are evaluated; the others never reach exec
\* below.
RECURSIVE py_eval(_)
RECURSIVE ChainHolds(_, _)
ChainHolds(vals, k) ==
  IF k >= Len(vals) THEN TRUE
  ELSE vals[k] < vals[k + 1] /\ ChainHolds(vals, k + 1)

py_eval(t) ==
  CASE t[1] = "Constant" -> t[2]
    [] t[1] = "UnaryOp" -> IF t[2] = "USub" THEN 0 - py_eval(t[3])
                           ELSE py_eval(t[3])
    [] t[1] = "BinOp" ->
         (CASE t[2] = "Add" -> py_eval(t[3]) + py_eval(t[4])
            [] t[2] = "Sub" -> py_eval(t[3]) - py_eval(t[4])
            [] t[2] = "Mult" -> py_eval(t[3]) * py_eval(t[4]))
    [] t[1] = "Compare" ->
         IF ChainHolds(<<py_eval(t[2])>> \o
                         [k \in DOMAIN t[4] |-> py_eval(t[4][k])], 1)
           THEN 1 ELSE 0

NoRun == [status |-> "none", r |-> 0]

\* seed_exec / exec(compile(...)) of compiled code.
run(compiled) ==
  IF compiled.status = "ok" THEN [status |-> "ok", r |-> py_eval(compiled.py)]
  ELSE [status |-> compiled.status, r |-> 0]

NoCompiled == [status |-> "none", py |-> <<>>, rest |-> <<>>]

Layers(s) ==
  [status |-> "source", source |-> s, seed |-> NoCompiled,
   pipeline |-> NoCompiled, seed_ns |-> NoRun, pipeline_ns |-> NoRun]

\* seed_compile(source).
SeedCompile ==
  /\ layers.status = "source"
  /\ layers' = [layers EXCEPT !.status = "seed_compiled",
                              !.seed = seed_compile(layers.source)]
  /\ UNCHANGED <<progvars, lexer, parser, rd, seed, symtab, coerce, estree, given>>

\* The same source through the pipeline's lexer, parser and code generator.
PipelineCompile ==
  /\ layers.status = "seed_compiled"
  /\ layers' = [layers EXCEPT !.status = "compiled",
                              !.pipeline = pipeline_compile(layers.source)]
  /\ UNCHANGED <<progvars, lexer, parser, rd, seed, symtab, coerce, estree, given>>

\* exec of the seed's code, for a program the seed accepted.
SeedExec ==
  /\ layers.status = "compiled"
  /\ layers.seed.status = "ok"
  /\ layers' = [layers EXCEPT !.status = "seed_run",
                              !.seed_ns = run(layers.seed)]
  /\ UNCHANGED <<progvars, lexer, parser, rd, seed, symtab, coerce, estree, given>>

\* exec of the pipeline's code for the same program, when there is any.
PipelineExec ==
  /\ layers.status = "seed_run"
  /\ layers' = [layers EXCEPT !.status = "done",
                              !.pipeline_ns = run(layers.pipeline)]
  /\ UNCHANGED <<progvars, lexer, parser, rd, seed, symtab, coerce, estree, given>>

InitLayers ==
  /\ FreshProgram
  /\ lexer = NoLexer
  /\ parser = NoParser
  /\ rd = NoRD
  /\ seed = NoSeed
  /\ symtab = NoSymtab
  /\ layers \in {Layers(s) : s \in ExprSources}
  /\ coerce = NoCoerce
  /\ estree = NoEstree
  /\ given = NoGiven

NextLayers ==
  \/ SeedCompile
  \/ PipelineCompile
  \/ SeedExec
  \/ PipelineExec

SpecLayers == InitLayers /\ [][NextLayers]_vars

\* ------------------------------------------------------------------ code contexts
\* JacRDParser._apply_context_coercion on the module the parser core returned.
\* A path is the sequence of its dot-separated components, and a statement
\* is [cls, element, aware, code_context, body]: element and aware stand for
\* isinstance(stmt, uni.ElementStmt) and isinstance(stmt, uni.ContextAwareNode).
CodeContext == {"server", "client", "native"}

BlockTypes == {"ClientBlock", "ServerBlock", "NativeBlock"}

ModulePaths ==
  {<<"a", "jac">>, <<"a", "cl", "jac">>, <<"a", "sv", "jac">>,
   <<"a", "na", "jac">>, <<"cl", "jac">>}

MaxBody == 2

Stmt(cls, element, aware, ctx, body) ==
  [cls |-> cls, element |-> element, aware |-> aware, code_context |-> ctx,
   body |-> body]

\* Statements without a body: a context-aware one, one that is not, and a
\* node that is no ElementStmt.
LeafStmts ==
  {Stmt("GlobalVars", TRUE, TRUE, c, <<>>) : c \in CodeContext}
  \cup {Stmt("PyInlineCode", TRUE, FALSE, "none", <<>>),
        Stmt("Other", FALSE, FALSE, "none", <<>>)}

EmptyBlocks == {Stmt(b, TRUE, FALSE, "none", <<>>) : b \in BlockTypes}

ModuleCodes ==
  {Stmt("ModuleCode", TRUE, TRUE, c, b) :
     c \in CodeContext, b \in {<<>>} \cup {<<s>> : s \in LeafStmts}}

Blocks ==
  {Stmt(b, TRUE, FALSE, "none", body) :
     b \in BlockTypes,
     body \in {<<>>} \cup {<<s>> : s \in LeafStmts \cup EmptyBlocks}}

Stmts == LeafStmts \cup ModuleCodes \cup Blocks

Bodies == SeqsUpTo(Stmts, MaxBody)

\* file_path.endswith("." + tag + ".jac").
EndsWith(path, tag) ==
  /\ Len(path) >= 3
  /\ path[Len(path) - 1] = tag
  /\ path[Len(path)] = "jac"

\* The first loop of _coerce_context: the statements of the blocks of the
\* unwrapped type in place of the blocks, the other ElementStmts as they are.
RECURSIVE Elements(_, _)
Elements(body, unwrap_block_type) ==
  IF body = <<>> THEN <<>>
  ELSE LET stmt == Head(body)
       IN (IF stmt.cls = unwrap_block_type THEN stmt.body
           ELSE IF stmt.element THEN <<stmt>>
           ELSE <<>>) \o Elements(Tail(body), unwrap_block_type)

\* The second loop without any marking.
Unmarked(elem, default_context) == elem

\* The second loop on one element: an explicit block is skipped, a
\* ContextAwareNode gets the default context, and so do the ContextAwareNodes
\* in the body of a ModuleCode.
Marked(elem, default_context) ==
  IF elem.cls \in BlockTypes THEN elem
  ELSE IF elem.aware
    THEN [elem EXCEPT
            !.code_context = default_context,
            !.body = IF elem.cls = "ModuleCode"
                       THEN [k \in DOMAIN elem.body |->
                               IF elem.body[k].aware
                                 THEN [elem.body[k] EXCEPT
                                         !.code_context = default_context]
                                 ELSE elem.body[k]]
                       ELSE elem.body]
  ELSE elem

coerce_context(body, default_context, unwrap_block_type) ==
  LET elements == Elements(body, unwrap_block_type)
  IN [k \in DOMAIN elements |-> Marked(elements[k], default_context)]

apply_context_coercion(path, body) ==
  IF EndsWith(path, "cl") THEN coerce_context(body, "client", "ClientBlock")
  ELSE IF EndsWith(path, "sv") THEN coerce_context(body, "server", "ServerBlock")
  ELSE IF EndsWith(path, "na") THEN coerce_context(body, "native", "NativeBlock")
  ELSE body

\* The tail of JacRDParser.transform for a module the core parsed.
ApplyContextCoercion ==
  /\ coerce.status = "parsed"
  /\ coerce' = [coerce EXCEPT
                  !.status = "returned",
                  !.body = apply_context_coercion(coerce.path, coerce.body)]
  /\ UNCHANGED <<progvars, lexer, parser, rd, seed, symtab, layers, estree, given>>

InitCoerce ==
  /\ FreshProgram
  /\ lexer = NoLexer
  /\ parser = NoParser
  /\ rd = NoRD
  /\ seed = NoSeed
  /\ symtab = NoSymtab
  /\ layers = NoLayers
  /\ coerce \in {[status |-> "parsed", path |-> p, parsed |-> b, body |-> b] :
                   p \in ModulePaths, b \in Bodies}
  /\ estree = NoEstree
  /\ given = NoGiven

NextCoerce == ApplyContextCoercion

SpecCoerce == InitCoerce /\ [][NextCoerce]_vars

\* ------------------------------------------------------------------ foreign sources
\* parse_ts_file: the module globals _runtime_cache and _deps_installed, the
\* machine (which runtimes shutil.which finds, whether tools/node_modules
\* exists) and the outcome of the last call.
Runtimes == {"bun", "node"}

Machines == [bun : BOOLEAN, node : BOOLEAN, node_modules : BOOLEAN]

\* The nodes of program.body as _transform_node sees them: a type with a
\* handler, a type without one, or null.
NodeKinds == {"handled", "unrecognized", "null"}

MaxNodes == 2

\* What the parse script printed on exit 0: the documented JSON object with
\* the program and its errors, or text that is not JSON.
EsTrees ==
  [json : {TRUE}, body : SeqsUpTo(NodeKinds, MaxNodes), errors : 0..1]

NotJson == [json |-> FALSE, body |-> <<>>, errors |-> 0]

\* What the subprocesses of one call do: the dependency installation, and the
\* parse script's exit and output.
Runs ==
  [install : {"ok", "fails"}, exit : {"zero", "nonzero", "timeout"},
   stdout : EsTrees \cup {NotJson}]

\* _find_runtime: the cached runtime, else bun, else node, else RuntimeError.
find_runtime(t) ==
  IF t.runtime_cache # "None" THEN [t |-> t, raised |-> "None"]
  ELSE IF t.machine.bun
    THEN [t |-> [t EXCEPT !.runtime_cache = "bun"], raised |-> "None"]
  ELSE IF t.machine.node
    THEN [t |-> [t EXCEPT !.runtime_cache = "node"], raised |-> "None"]
  ELSE [t |-> t, raised |-> "RuntimeError"]

\* _ensure_deps: subprocess.run(install_cmd, check=True) raises
\* CalledProcessError when the installation fails.
ensure_deps(t, r) ==
  IF t.deps_installed THEN [t |-> t, raised |-> "None"]
  ELSE IF t.machine.node_modules
    THEN [t |-> [t EXCEPT !.deps_installed = TRUE], raised |-> "None"]
  ELSE LET f == find_runtime(t)
       IN IF f.raised # "None" THEN f
          ELSE IF r.install = "fails"
            THEN [t |-> f.t, raised |-> "CalledProcessError"]
          ELSE [t |-> [f.t EXCEPT !.deps_installed = TRUE,
                                  !.machine.node_modules = TRUE],
                raised |-> "None"]

\* parse_ts_to_estree: the ESTree dict, or the exception raised.
parse_ts_to_estree(t, r) ==
  LET d == ensure_deps(t, r)
      f == find_runtime(d.t)
  IN IF d.raised # "None" THEN [t |-> d.t, raised |-> d.raised, estree |-> NotJson]
     ELSE IF f.raised # "None"
       THEN [t |-> f.t, raised |-> f.raised, estree |-> NotJson]
     ELSE IF r.exit = "timeout"
       THEN [t |-> f.t, raised |-> "TimeoutExpired", estree |-> NotJson]
     ELSE IF r.exit = "nonzero"
       THEN [t |-> f.t, raised |-> "RuntimeError", estree |-> NotJson]
     ELSE IF ~r.stdout.json
       THEN [t |-> f.t, raised |-> "JSONDecodeError", estree |-> NotJson]
     ELSE [t |-> f.t, raised |-> "None", estree |-> r.stdout]

\* A uni.Module: the number of its statements and its flag.
TsModule(body, has_syntax_errors) ==
  [body |-> body, has_syntax_errors |-> has_syntax_errors]

\* _make_error_module.
make_error_module == TsModule(0, TRUE)

\* EsTreeToUniAst.transform: one statement per node whose type has a handler;
\* null and unrecognized nodes are skipped.
transform_estree(tree) ==
  TsModule(Cardinality({k \in DOMAIN tree.body : tree.body[k] = "handled"}),
           FALSE)

\* Mutant: parse_ts_file without its try/except.
parse_ts_file_uncaught(t, r) ==
  LET p == parse_ts_to_estree(t, r)
  IN IF p.raised # "None"
       THEN [p.t EXCEPT !.status = "raised", !.raised = p.raised,
                        !.mod = TsModule(0, FALSE)]
       ELSE [p.t EXCEPT !.status = "returned", !.raised = "None",
                        !.mod = [transform_estree(p.estree) EXCEPT
                                   !.has_syntax_errors = p.estree.errors > 0]]

\* parse_ts_file: the state after the call, with the Module it returned.
parse_ts_file(t, r) ==
  LET p == parse_ts_to_estree(t, r)
  IN IF p.raised # "None"
       THEN [p.t EXCEPT !.status = "returned", !.raised = p.raised,
                        !.mod = make_error_module]
       ELSE [p.t EXCEPT !.status = "returned", !.raised = "None",
                        !.mod = [transform_estree(p.estree) EXCEPT
                                   !.has_syntax_errors = p.estree.errors > 0]]

\* One call of parse_ts_file with a source string.
ParseTsFile ==
  /\ estree.status \in {"idle", "returned"}
  /\ \E r \in Runs :
       estree' = [parse_ts_file(estree, r) EXCEPT !.run = r]
  /\ UNCHANGED <<progvars, lexer, parser, rd, seed, symtab, layers, coerce, given>>

InitEstree ==
  /\ FreshProgram
  /\ lexer = NoLexer
  /\ parser = NoParser
  /\ rd = NoRD
  /\ seed = NoSeed
  /\ symtab = NoSymtab
  /\ layers = NoLayers
  /\ coerce = NoCoerce
  /\ given = NoGiven
  /\ estree \in {[status |-> "idle", runtime_cache |-> "None",
                  deps_installed |-> FALSE, machine |-> m,
                  run |-> [install |-> "ok", exit |-> "zero", stdout |-> NotJson],
                  raised |-> "None", mod |-> TsModule(0, FALSE)] :
                   m \in Machines}

NextEstree == ParseTsFile

SpecEstree == InitEstree /\ [][NextEstree]_vars

\* ------------------------------------------------------------------ use_str
\* compile(file_path, use_str=...): the files on disk, the optional source
\* string of the call, the files the call read and the text it parsed.
SrcPaths == {"a.jac", "b.jac"}

SrcChars == {"a", ";"}

MaxSrcLen == 2

Texts == SeqsUpTo(SrcChars, MaxSrcLen)

\* use_str: str | None
NoneStr == [none |-> TRUE, text |-> <<>>]

Some(text) == [none |-> FALSE, text |-> text]

UseStrs == {NoneStr} \cup {Some(t) : t \in Texts}

\* Python truth value of a str | None: None and '' are false.
Truthy(use_str) == ~use_str.none /\ use_str.text # <<>>

\* read_file_with_encoding(file_path): the text of the file, and the read.
read_file_with_encoding(g, file_path) ==
  [text |-> g.files[file_path], reads |-> Append(g.reads, file_path)]

\* keep_str = use_str or read_file_with_encoding(file_path)
keep_str(g, file_path, use_str) ==
  IF Truthy(use_str) THEN [text |-> use_str.text, reads |-> g.reads]
  ELSE read_file_with_encoding(g, file_path)

\* parse_str builds uni.Source(source_str, mod_path=file_path) and parses it.
Source(source_str, file_path) == [code |-> source_str, mod_path |-> file_path]

\* One compile call with a use_str argument.
CompileGiven ==
  /\ given.status \in {"idle", "returned"}
  /\ \E file_path \in SrcPaths, use_str \in UseStrs :
       LET k == keep_str([given EXCEPT !.reads = <<>>], file_path, use_str)
       IN given' = [given EXCEPT !.status = "returned",
                                 !.file_path = file_path,
                                 !.use_str = use_str,
                                 !.reads = k.reads,
                                 !.source = Source(k.text, file_path)]
  /\ UNCHANGED <<progvars, lexer, parser, rd, seed, symtab, layers, coerce, estree>>

InitGiven ==
  /\ FreshProgram
  /\ lexer = NoLexer
  /\ parser = NoParser
  /\ rd = NoRD
  /\ seed = NoSeed
  /\ symtab = NoSymtab
  /\ layers = NoLayers
  /\ coerce = NoCoerce
  /\ estree = NoEstree
  /\ given \in {[status |-> "idle", files |-> f, file_path |-> "",
                 use_str |-> NoneStr, reads |-> <<>>,
                 source |-> Source(<<>>, "")] :
                  f \in [SrcPaths -> Texts]}

NextGiven == CompileGiven

SpecGiven == InitGiven /\ [][NextGiven]_vars

\* ------------------------------------------------------------------ properties
\* The module table holds bytecode for path p.
HubHoldsBytecode(p) == hub[p] # 0 /\ mods[hub[p]].py_bytecode # NoCode

\* The on-disk store holds a current entry for (p, minimal).
DiskHolds(p, minimal) ==
  /\ disk[<<p, minimal>>] # NoEntry
  /\ disk[<<p, minimal>>].mtime >= src[p].mtime

\* The call compiled: the parser ran.
Compiled(t) == HasEv(t, "JacParser")

IsPrefix(s, t) == Len(s) <= Len(t) /\ SubSeq(t, 1, Len(s)) = s

\* C1: every get_bytecode call consults the tiers strictly in order: the
\* module table first; the on-disk store only when the module table holds no
\* bytecode for the path; compile only when the module table and the store
\* both miss.
C1_TiersInOrder ==
  [][last'.op = "get_bytecode" =>
       LET t == last'.trace
           p == last'.path
           m == last'.args.minimal
       IN /\ t[1].ev = "hub_lookup"
          /\ CountEv(t, "hub_lookup") = 1
          /\ CountEv(t, "cache_get") <= 1
          /\ CountEv(t, "JacParser") <= 1
          /\ HasEv(t, "cache_get") =>
               /\ ~HubHoldsBytecode(p)
               /\ FirstEv(t, "hub_lookup") < FirstEv(t, "cache_get")
          /\ Compiled(t) =>
               /\ ~HubHoldsBytecode(p)
               /\ ~DiskHolds(p, m)
               /\ HasEv(t, "cache_get")
               /\ FirstEv(t, "cache_get") < FirstEv(t, "JacParser")]_vars

\* C1 witness: a get_bytecode call that went through all three tiers.
C1_Witness ==
  /\ last.op = "get_bytecode"
  /\ HasEv(last.trace, "hub_lookup")
  /\ HasEv(last.trace, "cache_get")
  /\ Compiled(last.trace)

\* C2: right after a get_bytecode(path) call that compiled the module and
\* returned bytecode, a second get_bytecode(path) call with the same option
\* returns the identical artifact and runs neither the parser nor any pass.
C2_SecondCallFromCache ==
  [][(/\ last.op = "get_bytecode"
      /\ Compiled(last.trace)
      /\ last.result # NoCode
      /\ last'.op = "get_bytecode"
      /\ last'.path = last.path
      /\ last'.args.minimal = last.args.minimal
      /\ src' = src)
     => /\ last'.result = last.result
        /\ ~Compiled(last'.trace)
        /\ PassesRun(last'.trace) = <<>>]_vars

\* C2 witness: the second of two such calls has returned bytecode.
C2_Witness ==
  /\ last.op = "get_bytecode"
  /\ last.note = "again"
  /\ last.result # NoCode
  /\ ~Compiled(last.trace)

\* C3 as stated: once the source was touched after bytecode for it was
\* obtained, the next get_bytecode(path) call recompiles.
C3_Original_TouchedRecompiles ==
  (last.op = "get_bytecode" /\ last.note = "touched") => Compiled(last.trace)

\* C3 amended: once the source was touched after bytecode for it was
\* obtained, the next get_bytecode(path) call recompiles exactly when the
\* module table holds no bytecode for the path; when it holds some, that
\* bytecode is returned and nothing is recompiled.
C3_TouchedRecompilesUnlessInHub ==
  [][(last'.op = "get_bytecode" /\ obtained[last'.path] = "touched") =>
       IF HubHoldsBytecode(last'.path)
       THEN /\ last'.result = mods[hub[last'.path]].py_bytecode
            /\ ~Compiled(last'.trace)
       ELSE Compiled(last'.trace)]_vars

\* C3 witness: a get_bytecode call after a touch that did recompile.
C3_Witness ==
  /\ last.op = "get_bytecode"
  /\ last.note = "touched"
  /\ Compiled(last.trace)
  /\ last.result # NoCode

\* C4 as stated: get_bytecode(path, minimal) never returns an artifact that
\* was compiled under another value of minimal.
C4_Original_OptionsMatch ==
  (last.op = "get_bytecode" /\ last.result # NoCode)
    => last.result.minimal = last.args.minimal

\* C4 amended: an artifact that get_bytecode takes from the on-disk store or
\* compiles itself was produced under the requested value of minimal (the
\* module table is keyed by path alone).
C4_DiskOptionsMatch ==
  (/\ last.op = "get_bytecode"
   /\ last.result # NoCode
   /\ HasEv(last.trace, "cache_get"))
    => last.result.minimal = last.args.minimal

\* C4 witness: a get_bytecode call served by the on-disk store.
C4_Witness ==
  /\ last.op = "get_bytecode"
  /\ EvNames(last.trace) = <<"hub_lookup", "cache_get">>
  /\ last.result # NoCode

\* C5: when get_bytecode falls through to compilation and the compile
\* produces bytecode, on return the module table maps the path to a module
\* carrying that bytecode and the on-disk store holds it under (path, option).
C5_BothTiersWritten ==
  (last.op = "get_bytecode" /\ Compiled(last.trace) /\ last.result # NoCode)
    => /\ hub[last.path] # 0
       /\ mods[hub[last.path]].py_bytecode = last.result
       /\ disk[<<last.path, last.args.minimal>>] =
            [code |-> last.result, mtime |-> src[last.path].mtime]

\* C5 witness: get_bytecode compiled, stored and returned bytecode.
C5_Witness ==
  /\ last.op = "get_bytecode"
  /\ HasEv(last.trace, "cache_put")
  /\ last.result # NoCode

SyntacticError(d) ==
  \E i \in 1..Len(d) : d[i] \in {"SyntaxError", "InternalError"}

\* C6: a compile call in which a syntactic error was recorded runs no
\* code-generation pass, leaves the module without bytecode, and still
\* returns a Module.
C6_ErrorsSuppressCodegen ==
  (last.op = "compile" /\ SyntacticError(last.diags))
    => /\ \A i \in 1..Len(last.trace) : last.trace[i].ev \notin CodegenPasses
       /\ last.mod # 0
       /\ mods[last.mod] # NoMod
       /\ mods[last.mod].py_bytecode = NoCode

\* C6 witness: a compile with code generation asked for hit a syntax error.
C6_Witness ==
  /\ last.op = "compile"
  /\ SyntacticError(last.diags)
  /\ ~last.args.no_cgen

\* C7: run_schedule invokes every pass of its schedule once, in list order,
\* whatever diagnostics the earlier passes recorded; so does the IR schedule
\* inside compile.
C7_EveryPassInOrder ==
  /\ last.op = "run_schedule" =>
       PassesRun(last.trace) = SchedOf(last.args.sched)
  /\ last.op = "compile" => IsPrefix(IrSched(last.args), PassesRun(last.trace))

\* C7 witness: a schedule of several passes ran although its first pass
\* already recorded a diagnostic.
C7_Witness ==
  /\ last.op = "run_schedule"
  /\ last.args.cancel_token = "set"
  /\ Len(last.diags) >= 2
  /\ Len(PassesRun(last.trace)) >= 2

\* C8 as stated: compile with the cancellation handle already set returns a
\* stub Module, records exactly one Cancelled diagnostic, and writes nothing
\* else: no module-table entry, no bytecode, no cache entry.
C8_CancelledCompile ==
  (last.op = "compile" /\ last.args.cancel_token = "set")
    => /\ last.mod # 0
       /\ mods[last.mod].stub
       /\ last.diags = <<"Cancelled">>
       /\ ~HasEv(last.trace, "hub_write")
       /\ mods[last.mod].py_bytecode = NoCode
       /\ ~HasEv(last.trace, "cache_put")

\* Within one call the mark, once seen set, stays set.
FlagMonotone(t) ==
  \A i \in 1..Len(t) : \A j \in i..Len(t) : t[i].flag => t[j].flag

\* C9: has_syntax_errors is monotone: no later step of the call that set
\* it, and no later call on the same Module object, resets it.
C9_FlagNeverCleared ==
  [][/\ FlagMonotone(last'.trace)
     /\ \A i \in 1..MaxMods :
          (mods[i] # NoMod /\ mods'[i] # NoMod /\ mods[i].has_syntax_errors)
            => mods'[i].has_syntax_errors]_vars

\* C9 witness: a schedule has run on a module that was marked, and the
\* module is still marked.
C9_Witness ==
  /\ last.op = "run_schedule"
  /\ Len(PassesRun(last.trace)) >= 1
  /\ held # 0
  /\ mods[held].has_syntax_errors

\* Every event of t called one of names comes after position k.
AllAfter(t, names, k) == \A i \in 1..Len(t) : t[i].ev \in names => i > k

\* C10 as stated: the module is written to the module table exactly once,
\* and only after all passes that produce it have finished.
C10_Original_WrittenOnceAfterPasses ==
  last.op = "compile" =>
    /\ CountEv(last.trace, "hub_write") = 1
    /\ \A i \in 1..Len(last.trace) :
         last.trace[i].ev \in AllPassNames \cup {"JacParser", "JacAnnexPass"}
           => i < FirstEv(last.trace, "hub_write")

\* C10 amended: a Module object is written to the module table at most once:
\* once when its parse recorded no error, never when it did; the write
\* installs the module just parsed, right after the parser and before the
\* annex pass and every scheduled pass.
C10_WrittenAtMostOnceAfterParse ==
  LET t == last.trace
      w == FirstEv(t, "hub_write")
  IN /\ CountEv(t, "hub_write") <= 1
     /\ ~Compiled(t) => w = 0
     /\ Compiled(t) =>
          /\ (w # 0) <=> ~t[FirstEv(t, "JacParser")].flag
          /\ w # 0 =>
               /\ w = FirstEv(t, "JacParser") + 1
               /\ AllAfter(t, AllPassNames \cup {"JacAnnexPass"}, w)
               /\ hub[last.path] = last.mod

\* C10 witness: a compile registered its module and then ran passes on it.
C10_Witness ==
  /\ last.op = "compile"
  /\ HasEv(last.trace, "hub_write")
  /\ Len(PassesRun(last.trace)) >= 5

\* C11 as stated: whenever the type-check schedule runs inside compile, the
\* five passes of the full IR schedule have already run, in order, on the
\* same module, whatever the compile options.
C11_TypeCheckAfterFullIr ==
  (last.op = "compile" /\ HasEv(last.trace, "TypeCheckPass"))
    => LET k == FirstEv(last.trace, "TypeCheckPass")
       IN IsPrefix(get_ir_gen_sched,
                   PassesRun(SubSeq(last.trace, 1, k - 1)))

\* C13 as stated: the lexer never raises and never stops mid-stream; a
\* character that starts no token gives exactly one ERROR token of that one
\* character, and the source is scanned to its end.
C13_LexerNeverAborts ==
  /\ lexer.status # "raised"
  /\ \A i \in 1..Len(lexer.tokens) :
       lexer.tokens[i].type = "ERROR" =>
         /\ lexer.tokens[i].pos_end = lexer.tokens[i].pos_start + 1
         /\ lexer.tokens[i].value =
              <<lexer.source[lexer.tokens[i].pos_start + 1]>>
  /\ lexer.status = "done" => lexer.pos = Len(lexer.source)

\* The tokens of ts are in source order: each starts where or after the one
\* before it ends.
Ordered(ts) ==
  \A i \in 1..(Len(ts) - 1) :
    /\ ts[i].pos_start <= ts[i].pos_end
    /\ ts[i].pos_end <= ts[i + 1].pos_start

\* C14: the list tokenize returns is ordered by source position and holds
\* exactly one EOF token, its last element.
C14_OrderedEndingInEof ==
  lexer.status = "done" =>
    /\ Ordered(lexer.tokens)
    /\ lexer.tokens # <<>>
    /\ lexer.tokens[Len(lexer.tokens)].type = "EOF"
    /\ \A i \in 1..(Len(lexer.tokens) - 1) : lexer.tokens[i].type # "EOF"

\* C14 witness: tokenize returned a list of several tokens.
C14_Witness ==
  /\ lexer.status = "done"
  /\ Len(lexer.tokens) >= 4

\* The source between token i and the token after it (before the first
\* token for i = 0).
Gap(l, i) ==
  Slice(l.source,
        IF i = 0 THEN 0 ELSE l.tokens[i].pos_end,
        l.tokens[i + 1].pos_start)

\* C15 as stated: on a well-formed input every token's text is the source
\* between its offsets, the spans do not overlap, and what lies between
\* consecutive tokens is skipped whitespace, so that the token texts and
\* the skipped spans together give back the input.
C15_TokensReproduceInput ==
  (lexer.status = "done" /\ lexer.source \in BalancedLiterals) =>
    /\ \A i \in 1..Len(lexer.tokens) :
         lexer.tokens[i].value =
           Slice(lexer.source, lexer.tokens[i].pos_start,
                 lexer.tokens[i].pos_end)
    /\ Ordered(lexer.tokens)
    /\ \A i \in 0..(Len(lexer.tokens) - 1) :
         \A k \in 1..Len(Gap(lexer, i)) : Gap(lexer, i)[k] = " "

\* C16: when the closing quote of an interpolated literal has been lexed,
\* the mode stack, the brace-nesting counter and the auxiliary counter stack
\* are what they were before its opening quote.
C16_ModeStateRestored ==
  [][(lexer.status = "scanning" /\ Len(lexer'.entered) < Len(lexer.entered))
       => ModeState(lexer') = lexer.entered[Len(lexer.entered)]]_vars

\* C16 witness: a balanced literal with braces nested 8 deep or more and a
\* literal nested in it has been lexed to its end, back in the initial mode.
C16_Witness ==
  /\ lexer.status = "done"
  /\ lexer.source \in BalancedLiterals
  /\ MaxBraceNesting(lexer.source) >= 8
  /\ Cardinality({i \in 1..Len(lexer.tokens) :
                    lexer.tokens[i].type \in StartTokens}) >= 2
  /\ ModeState(lexer) = ModeState(BootstrapLexer(lexer.source))

\* C12 (as stated): for every token list parsing returns a Module and no
\* exception escapes the parser to its caller.
C12_NoExceptionEscapes == parser.status # "raised" /\ rd.status # "raised"

\* C12 (amended): BootstrapParser.parse(), which bootstrap_parse calls without
\* a handler, returns a Module only with every token up to EOF consumed; at an
\* unexpected token it raises a SyntaxError that names the position of that
\* token and leaves to the caller.  JacRDParser.transform always returns a
\* Module: a stub marked has_syntax_errors with a logged error when its parser
\* core raised or returned no Module, and the core's Module marked
\* has_syntax_errors when the core held errors.
C12_RaisesOrReturnsModule ==
  /\ parser.status = "returned"
       => p_at_end(parser.tokens, parser.pos) /\ parser.error = 0
  /\ parser.status = "raised"
       => parser.error = parser.pos /\ parser.error \in 1..Len(parser.tokens)
  /\ rd.status \in {"ready", "returned"}
  /\ rd.status = "returned"
       => /\ rd.module \in {"module", "stub"}
          /\ rd.module = "stub" <=> rd.core \in {"raised", "not_module"}
          /\ rd.core # "module" <=> rd.has_syntax_errors
          /\ rd.has_syntax_errors => rd.errors_had > 0

C12_Witness ==
  /\ parser.status = "raised"
  /\ parser.body > 0
  /\ rd.status = "returned"
  /\ rd.core = "raised"

\* The first declaration naming n is an impl and an obj n follows it.
ImplBeforeObj(items, n) ==
  \E i, j \in 1..Len(items) :
    /\ i < j
    /\ items[i].kind = "impl" /\ items[i].name = n
    /\ items[j].kind = "obj" /\ items[j].name = n
    /\ \A k \in 1..(i - 1) : items[k].name # n

\* C17: for every module in which impl Foo { ... } appears before obj Foo
\* { ... }, executing the compiled module succeeds and the instances of Foo
\* have the impl's methods.
C17_ImplBeforeObjBinds ==
  \A n \in ObjNames :
    (seed.status \in {"running", "NameError", "done"}
       /\ ImplBeforeObj(seed.items, n))
    => /\ seed.status # "NameError"
       /\ \A i \in 1..Len(seed.instances) :
            seed.instances[i].cls = n => HasMethod(seed, i, "bar")

\* C18: for every obj with a has field whose default is a list, dict or set
\* literal, mutating the field on one instance never changes the value of the
\* field on any other instance.
C18_FreshDefaults ==
  [][\A i, j \in 1..Len(seed.instances) :
       (i # j /\ seed'.mutated = i /\ seed' # seed)
       => FieldValue(seed', j) = FieldValue(seed, j)]_vars

C18_Witness ==
  \E i, j \in 1..Len(seed.instances) :
    /\ i # j
    /\ seed.instances[i].cls = seed.instances[j].cls
    /\ seed.classes[seed.instances[i].cls].default = "factory"
    /\ seed.mutated = i
    /\ FieldValue(seed, i) > 0
    /\ FieldValue(seed, j) = 0

\* The definition of n in the first scope, from s towards the root, that
\* defines n.
Nearest(tab, s, n) ==
  LET c == Chain(tab, s)
      ks == {k \in 1..Len(c) : tab.scopes[c[k]].symbols[n] # "none"}
  IN IF ks = {} THEN NoSymbol
     ELSE LET k == CHOOSE k \in ks : \A j \in ks : k <= j
          IN [scope |-> c[k], name |-> n,
              kind |-> tab.scopes[c[k]].symbols[n]]

\* C19: for every scope S and name N, lookup(N) from S returns the symbol for
\* N of the nearest scope on the parent chain from S to the root, or none if
\* no scope of the chain defines N; and a result obtained earlier, with no
\* definition since, is what a second lookup returns.
C19_LookupNearest ==
  /\ \A s \in 1..Len(symtab.scopes), n \in VarNames :
       lookup(symtab, s, n) = Nearest(symtab, s, n)
  /\ symtab.found # NoFound
       => lookup(symtab, symtab.found.scope, symtab.found.name)
            = symtab.found.result

C19_Witness ==
  /\ symtab.found # NoFound
  /\ symtab.found.result # NoSymbol
  /\ symtab.found.result.scope \notin {1, symtab.found.scope}
  /\ symtab.scopes[1].symbols[symtab.found.name] # "none"
  /\ symtab.scopes[1].symbols[symtab.found.name] # symtab.found.result.kind

\* The module declares a container named target.
DeclaresContainer(module, target) ==
  \E i \in 1..Len(module) :
    module[i].kind = "obj" /\ module[i].name = target

\* Impl record k is among the unmatched impls.
Reported(tab, k) ==
  \E u \in 1..Len(get_unmatched_impls(tab)) :
    get_unmatched_impls(tab)[u] = tab.impls[k]

C21_SameObservableBehaviour ==
  layers.status = "done" => layers.pipeline_ns = layers.seed_ns

\* The expressions of the operator chain: those the pipeline's lexer turns
\* into integers and operators of the levels comparison, bitwise or, xor and
\* and, shift, additive, multiplicative, unary and power only.
ChainTokenTypes ==
  {"INT", "LT", "BW_OR", "BW_XOR", "BW_AND", "LSHIFT", "PLUS", "MINUS",
   "STAR_MUL", "STAR_POW", "SEMI", "EOF"}

InChain(s) ==
  LET ts == bootstrap_tokenize(s, 1, <<>>)
  IN \A k \in DOMAIN ts : ts[k].type \in ChainTokenTypes

\* The Python tree without the unary plus nodes, which the seed never emits.
RECURSIVE WithoutUAdd(_)
WithoutUAdd(t) ==
  CASE t[1] = "UnaryOp" ->
         IF t[2] = "UAdd" THEN WithoutUAdd(t[3])
         ELSE <<"UnaryOp", t[2], WithoutUAdd(t[3])>>
    [] t[1] = "BinOp" -> <<"BinOp", t[2], WithoutUAdd(t[3]), WithoutUAdd(t[4])>>
    [] t[1] = "Compare" ->
         <<"Compare", WithoutUAdd(t[2]), t[3],
           [k \in DOMAIN t[4] |-> WithoutUAdd(t[4][k])]>>
    [] OTHER -> t

\* C23: every expression of the operator chain that the precedence grammar
\* accepts is accepted by the seed compiler too, and compiled to the tree
\* that this precedence gives.
C23_SeedCompilesOperatorChain ==
  (/\ layers.status = "compiled"
   /\ InChain(layers.source)
   /\ layers.pipeline.status = "ok")
  => (/\ layers.seed.status = "ok"
      /\ layers.seed.py = WithoutUAdd(layers.pipeline.py))

\* The context a path's suffix stands for, "none" without such a suffix.
SuffixContext(path) ==
  IF EndsWith(path, "cl") THEN "client"
  ELSE IF EndsWith(path, "sv") THEN "server"
  ELSE IF EndsWith(path, "na") THEN "native"
  ELSE "none"

\* The context a statement carries: a block's own, a context-aware
\* statement's code_context, none otherwise.
Tag(stmt) ==
  CASE stmt.cls = "ClientBlock" -> "client"
    [] stmt.cls = "ServerBlock" -> "server"
    [] stmt.cls = "NativeBlock" -> "native"
    [] OTHER -> stmt.code_context

UnterminatedTriple(s) ==
  /\ Len(s) >= 3
  /\ SubSeq(s, 1, 3) = <<"\"", "\"", "\"">>
  /\ \A i \in 4..(Len(s) - 2) : SubSeq(s, i, i + 2) # <<"\"", "\"", "\"">>

\* C24 as stated: lexing a source with a triple-quoted string that is never
\* closed does not crash and reports exactly one error, positioned at the
\* opening quote of that string.
C24_UnterminatedTripleReported ==
  (lexer.status \in {"done", "raised"} /\ UnterminatedTriple(lexer.source))
  => /\ lexer.status = "done"
     /\ \E i \in 1..Len(lexer.tokens) :
          /\ lexer.tokens[i].type = "ERROR"
          /\ lexer.tokens[i].pos_start = 0
          /\ \A j \in 1..Len(lexer.tokens) :
               lexer.tokens[j].type = "ERROR" => j = i

\* The last parse_ts_file call failed to parse its source: the external
\* parser could not run, exited with an error, timed out, printed no JSON, or
\* reported syntax errors.
ParseFailed ==
  /\ estree.status # "idle"
  /\ \/ estree.raised # "None"
     \/ estree.run.stdout.errors > 0

C26_UseStrIsParsed ==
  (given.status = "returned" /\ ~given.use_str.none) =>
    (given.source.code = given.use_str.text /\ given.reads = <<>>)

\* The text modes of the single-quoted interpolated literals.
SingleQuotedModes == {m \in FStringModes : ~FSTRING_MODE_INFO[m].triple}

\* C27: when the text of a single-quoted interpolated literal reaches a
\* newline before its closing quote, the literal ends there: the iteration
\* that meets the newline pops the text mode, so the next line is tokenized
\* in the mode that was active before the literal opened.
C27_LiteralStopsAtNewline ==
  [][(/\ lexer.status = "scanning"
      /\ current_mode(lexer) \in SingleQuotedModes
      /\ current(lexer) = "\n")
       => lexer'.mode_stack = Pop(lexer.mode_stack)]_vars

\* C28: every iteration of the main loop of tokenize, in normal, text and
\* expression mode alike, leaves the read position strictly further on, and
\* the loop never runs more iterations than the source has characters.
C28_EveryIterationAdvances ==
  [][(lexer.status = "scanning" /\ ~at_end(lexer))
       => (/\ lexer'.pos > lexer.pos
           /\ lexer'.pos <= Len(lexer.source)
           /\ lexer'.iterations <= lexer'.pos)]_vars

\* C28 witness: tokenize returned after iterations in normal, text and
\* expression mode, one of them the fallback that consumes a newline.
C28_Witness ==
  /\ lexer.status = "done"
  /\ lexer.iterations >= 4
  /\ \E i, j, k \in DOMAIN lexer.tokens :
       /\ i < j /\ j < k
       /\ lexer.tokens[i].type \in StartTokens
       /\ lexer.tokens[j].type = "RBRACE"
       /\ lexer.tokens[k].type = "STRING"
       /\ lexer.tokens[k].value = <<"\n">>

\* The number of entries of the mode stack that are in the set modes.
ModeCount(l, modes) ==
  Cardinality({i \in DOMAIN l.mode_stack : l.mode_stack[i] \in modes})

\* C29: between the iterations of tokenize the mode stack is non-empty with
\* the normal mode at its bottom, the auxiliary counter stack has one entry
\* per expression-mode entry of the mode stack, the raw-flag stack has one
\* entry per text-mode entry, and the brace counter is at least 1 whenever
\* the top mode is the expression mode.
C29_StacksInStep ==
  lexer.status # "none" =>
    /\ lexer.mode_stack # <<>>
    /\ lexer.mode_stack[1] = "normal"
    /\ Len(lexer.fstring_brace_depth_stack) = ModeCount(lexer, {"fstring_expr"})
    /\ Len(lexer.fstring_raw_stack) = ModeCount(lexer, FStringModes)
    /\ (current_mode(lexer) = "fstring_expr" => lexer.fstring_brace_depth >= 1)

\* C29 witness: a literal inside the expression of a literal was closed, with
\* the outer literal and its expression still open.
C29_Witness ==
  /\ lexer.status = "scanning"
  /\ Len(lexer.mode_stack) = 3
  /\ current_mode(lexer) = "fstring_expr"
  /\ lexer.tokens # <<>>
  /\ lexer.tokens[Len(lexer.tokens)].type \in EndTokens
  /\ Len(lexer.fstring_raw_stack) = 1
  /\ Len(lexer.fstring_brace_depth_stack) = 1

\* The call compiled and the module it compiled came out without bytecode.
CompiledWithoutBytecode(t) ==
  /\ Compiled(t)
  /\ \A i \in 1..Len(t) : t[i].ev = "PyBytecodeGenPass" => t[i].flag

\* Neither tier would serve get_bytecode(p, ...) an artifact: the module
\* table holds no bytecode for p and the on-disk store no current entry.
Unserved(p) ==
  /\ ~HubHoldsBytecode(p)
  /\ \A minimal \in BOOLEAN : ~DiskHolds(p, minimal)

\* C30: a get_bytecode call whose recompilation yields a module without
\* bytecode returns None and leaves the on-disk store as it was, so that
\* neither tier serves the path; and a path neither tier serves stays so
\* until a call compiles it and the compile produces bytecode.
C30_FailedCompileNotCached ==
  [][\A p \in Paths :
       /\ (/\ last'.op = "get_bytecode"
           /\ last'.path = p
           /\ CompiledWithoutBytecode(last'.trace))
            => (/\ last'.result = NoCode
                /\ disk' = disk
                /\ Unserved(p)')
       /\ (Unserved(p) /\ ~Unserved(p)')
            => (/\ last'.op \in {"compile", "get_bytecode"}
                /\ last'.path = p
                /\ Compiled(last'.trace)
                /\ ~CompiledWithoutBytecode(last'.trace))]_vars

\* C30 witness: a get_bytecode call recompiled a source with syntax errors
\* and returned None while the on-disk store held an older artifact of the
\* path, and neither tier serves the path.
C30_Witness ==
  /\ last.op = "get_bytecode"
  /\ CompiledWithoutBytecode(last.trace)
  /\ last.result = NoCode
  /\ \E minimal \in BOOLEAN : disk[<<last.path, minimal>>] # NoEntry
  /\ Unserved(last.path)

====
